---- MODULE Spec2Model ----
(***************************************************************************)
(* Compliance-scan request handling, the synchronous parse wait and the    *)
(* runner stop call of cloudiac (portal/apps/policy.go and the task        *)
(* manager), as a state machine over the portal database.                  *)
(***************************************************************************)
EXTENDS Integers, Sequences, FiniteSets, TLC

(* ------------------------------ bounds -------------------------------- *)
\* scan-task rows the model lets the database hold
MaxScanTasks == 2
\* ParseTemplate requests per behaviour of the parse-wait specification
MaxParseCalls == 1
\* scan-task rows in the specification of the stop calls
MaxStopScanTasks == 1
\* execution tasks whose completion is processed
MaxDoneTasks == 3
\* hours the clock of the auto-destroy specification runs
MaxNow == 3
\* violating resources one policy test finds
MaxViolations == 3
\* the last day a report can be asked for, counted from day 0
MaxDay == 3
\* days of the model's calendar year: a month-day label repeats after them
YearDays == 3
\* per-day, per-status rows the scan-status query returns
MaxRows == 2
\* results one such row counts
MaxCount == 2
\* policy-result rows on one page of scan results
MaxResults == 3
\* goroutines of template requests that have not run their scan yet
MaxGoroutines == 2
MaxIds == 2

(* ------------------------- program constants -------------------------- *)
\* time.NewTicker(time.Second)
PollSeconds == 1
\* time.NewTicker(30 * time.Second)
ParseTimeoutSeconds == 30
StatusBadRequest == 400
StatusInternalServerError == 500
\* e.New(code, err) without a status argument: the status is the library's
StatusUnset == 0

TplIds == {"tpl1"}
EnvIds == {"env1"}
RunnerIds == {"runner1", "runner2"}
NoId == ""
NoTask == 0
Ok == ""

TaskTypeEnvScan == "envScan"
TaskTypeEnvParse == "envParse"
TaskTypeTplScan == "tplScan"
TaskTypeTplParse == "tplParse"
ScanTaskTypes == {TaskTypeEnvScan, TaskTypeEnvParse, TaskTypeTplScan, TaskTypeTplParse}

TaskPending == "pending"
TaskRunning == "running"
TaskComplete == "complete"
TaskFailed == "failed"
TaskTimeout == "timeout"
TaskStatuses == {TaskPending, TaskRunning, TaskComplete, TaskFailed, TaskTimeout}

\* the step of a handler at which the database, the registry or the runtime
\* fails; a handler returns at the first failure, so one point per call
ScanFaults ==
  {"none", "EnvNotExists", "GetEnvById", "IsEnvEnabledScan", "TemplateNotExists",
   "GetTemplateById", "IsTemplateEnabledScan", "CreateScanTask", "InitScanResult",
   "Save", "Commit", "panic"}

VARIABLES
  tpls,          \* template rows by id: status, policyEnable, lastScanTaskId
  envs,          \* environment rows: tplId, archived, policyEnable, lastScanTaskId
  scanTasks,     \* committed scan-task rows; a row's id is its index
  policyResults, \* ids of the scan tasks whose initial policy results exist
  tasks,         \* execution-task rows: status, runnerId, containerId
  defaultRunner, \* what the runner registry resolves as default runner
  call,          \* the last request handled, what it returned, whether it repeats a stop
  ppc,           \* ParseTemplate: idle, read, select or done
  pTaskId,       \* ParseTemplate: the scan task it waits for
  pSeen,         \* ParseTemplate: the status its last read returned
  pResult,       \* ParseTemplate: what it returned
  pCalls,        \* ParseTemplate requests made
  tickerC,       \* a tick is buffered in ticker.C
  timeoutC,      \* a tick is buffered in timeout.C
  elapsed,       \* seconds since the tickers were created, capped
  envAttrs,      \* environment rows: status, ttl, autoDestroyAt, autoDestroyTaskId, lastResTaskId
  now,           \* time.Now(), in hours, capped
  resources,     \* resource rows, in insertion order: taskId, address
  outputs,       \* output rows, in insertion order: taskId, name
  changes,       \* resource-change rows, in insertion order: taskId, address
  drifts,        \* resource-drift rows: the resource ids (taskId, address) that have one
  files,         \* the log store: per execution task its state, schema, plan and log file
  done,          \* the last task-done processing call and what it returned
  arg,           \* the input of the report, test or grouping function under study
  resp,          \* what the last report, test, batch or template request returned
  bg             \* goroutines a template request left behind, and what they logged

dbVars == <<tpls, envs, scanTasks, policyResults>>
parseVars == <<ppc, pTaskId, pSeen, pResult, pCalls, tickerC, timeoutC, elapsed>>
doneVars == <<envAttrs, now, resources, outputs, changes, drifts, files, done>>
vars == <<tpls, envs, scanTasks, policyResults, tasks, defaultRunner,
          call, ppc, pTaskId, pSeen, pResult, pCalls, tickerC, timeoutC, elapsed,
          envAttrs, now, resources, outputs, changes, drifts, files, done,
          arg, resp, bg>>
appVars == <<arg, resp, bg>>
restVars == <<tpls, envs, scanTasks, policyResults, tasks, defaultRunner,
              call, ppc, pTaskId, pSeen, pResult, pCalls, tickerC, timeoutC, elapsed,
              envAttrs, now, resources, outputs, changes, drifts, files, done>>

\* no input, nothing returned, no goroutine
NoArg == [op |-> "none"]
NoResp == [op |-> "none"]
NoBg == [pending |-> <<>>, log |-> [tplId |-> NoId, err |-> Ok], crashed |-> FALSE]

\* no stop request was posted
NoReq == [runnerId |-> NoId, kind |-> NoId, taskId |-> NoTask, containerIds |-> <<>>]

NoCall ==
  [op |-> "none", tplId |-> NoId, envId |-> NoId, parse |-> FALSE, fault |-> "none",
   err |-> Ok, http |-> StatusUnset, tx |-> "none", taskId |-> NoTask, req |-> NoReq,
   again |-> FALSE]

(* ----------------------------- scan type ------------------------------ *)
\* mutant: the parse flag decides before the environment does
GetScanTaskTypeParseFirst(envId, parseOnly) ==
  IF parseOnly THEN TaskTypeTplParse
  ELSE IF envId # NoId THEN TaskTypeEnvScan
  ELSE TaskTypeTplScan

GetScanTaskType(envId, parseOnly) ==
  IF envId # NoId /\ ~parseOnly THEN TaskTypeEnvScan
  ELSE IF envId # NoId /\ parseOnly THEN TaskTypeEnvParse
  ELSE IF envId = NoId /\ ~parseOnly THEN TaskTypeTplScan
  ELSE TaskTypeTplParse

(* --------------------------- eligibility ------------------------------ *)
\* what a check returns: the error, its HTTP class, and whether the check
\* itself rolled the transaction back before returning
Check(err, http, rolledBack, fault) ==
  [err |-> err, http |-> http, rolledBack |-> rolledBack, fault |-> fault]
Passed == Check(Ok, StatusUnset, FALSE, "none")

IsEnvEnabledScan(envId) == envs[envId].policyEnable
IsTemplateEnabledScan(tplId) == tpls[tplId].policyEnable

\* mutant: the archived test is missing
IsScanableEnvSkipsArchived(envId, isParse, fault) ==
  IF fault = "EnvNotExists" \/ envId \notin EnvIds
    THEN Check("EnvNotExists", StatusBadRequest, TRUE, "EnvNotExists")
  ELSE IF fault = "GetEnvById"
    THEN Check("DBError", StatusInternalServerError, TRUE, fault)
  ELSE IF fault = "IsEnvEnabledScan"
    THEN Check("DBError", StatusInternalServerError, TRUE, fault)
  ELSE IF ~IsEnvEnabledScan(envId) /\ ~isParse
    THEN Check("PolicyScanNotEnabled", StatusBadRequest, TRUE, "none")
  ELSE Passed

IsScanableEnv(envId, isParse, fault) ==
  IF fault = "EnvNotExists" \/ envId \notin EnvIds
    THEN Check("EnvNotExists", StatusBadRequest, TRUE, "EnvNotExists")
  ELSE IF fault = "GetEnvById"
    THEN Check("DBError", StatusInternalServerError, TRUE, fault)
  ELSE IF envs[envId].archived
    THEN Check("EnvArchived", StatusBadRequest, FALSE, "none")
  ELSE IF fault = "IsEnvEnabledScan"
    THEN Check("DBError", StatusInternalServerError, TRUE, fault)
  ELSE IF ~IsEnvEnabledScan(envId) /\ ~isParse
    THEN Check("PolicyScanNotEnabled", StatusBadRequest, TRUE, "none")
  ELSE Passed

\* mutant: the compliance gate does not look at isParse
IsScanableTplIgnoresParse(tplId, envId, isParse, fault) ==
  IF fault = "TemplateNotExists" \/ tplId \notin DOMAIN tpls
    THEN Check("TemplateNotExists", StatusBadRequest, FALSE, "TemplateNotExists")
  ELSE IF fault = "GetTemplateById"
    THEN Check("DBError", StatusInternalServerError, FALSE, fault)
  ELSE IF tpls[tplId].status = "disable"
    THEN Check("TemplateDisabled", StatusBadRequest, FALSE, "none")
  ELSE IF envId = NoId /\ fault = "IsTemplateEnabledScan"
    THEN Check("DBError", StatusInternalServerError, TRUE, fault)
  ELSE IF envId = NoId /\ ~IsTemplateEnabledScan(tplId)
    THEN Check("PolicyScanNotEnabled", StatusBadRequest, TRUE, "none")
  ELSE Passed

IsScanableTpl(tplId, envId, isParse, fault) ==
  IF fault = "TemplateNotExists" \/ tplId \notin DOMAIN tpls
    THEN Check("TemplateNotExists", StatusBadRequest, FALSE, "TemplateNotExists")
  ELSE IF fault = "GetTemplateById"
    THEN Check("DBError", StatusInternalServerError, FALSE, fault)
  ELSE IF tpls[tplId].status = "disable"
    THEN Check("TemplateDisabled", StatusBadRequest, FALSE, "none")
  ELSE IF envId = NoId /\ fault = "IsTemplateEnabledScan"
    THEN Check("DBError", StatusInternalServerError, TRUE, fault)
  ELSE IF envId = NoId /\ ~IsTemplateEnabledScan(tplId) /\ ~isParse
    THEN Check("PolicyScanNotEnabled", StatusBadRequest, TRUE, "none")
  ELSE Passed

(* ------------------------- the transaction --------------------------- *)
\* the rows a transaction sees and, once committed, leaves
Db == [tpls |-> tpls, envs |-> envs, scanTasks |-> scanTasks,
       policyResults |-> policyResults]

NoContainer == <<>>
ContainerOf(kind, id) == <<kind, id>>

\* services.GetDefaultRunnerId: the registry's default runner, NoId when
\* none can be resolved
GetDefaultRunnerId == defaultRunner

\* mutant: the literal leaves RunnerId out
TplScanTaskNoRunner(tplId, envId, taskType, runnerId) ==
  [tplId |-> tplId, envId |-> envId, type |-> taskType, runnerId |-> NoId]

\* the models.ScanTask literal ScanTemplateOrEnv hands to CreateScanTask
TplScanTask(tplId, envId, taskType, runnerId) ==
  [tplId |-> tplId, envId |-> envId, type |-> taskType, runnerId |-> runnerId]

Created(err, fault, db, id) == [err |-> err, fault |-> fault, db |-> db, id |-> id]

\* services.CreateScanTask: inserts the row with status pending
CreateScanTask(db, pt, fault) ==
  IF fault = "CreateScanTask" THEN Created("DBError", fault, db, NoTask)
  ELSE Created(Ok, "none",
         [db EXCEPT !.scanTasks = Append(@,
            [tplId |-> pt.tplId, envId |-> pt.envId, type |-> pt.type,
             status |-> TaskPending, runnerId |-> pt.runnerId,
             containerId |-> NoContainer])],
         Len(db.scanTasks) + 1)

\* services.CreateEnvScanTask: resolves the runner itself, then inserts
CreateEnvScanTask(db, tplId, envId, taskType, fault) ==
  IF GetDefaultRunnerId = NoId THEN Created("NoRunnerAvailable", "none", db, NoTask)
  ELSE CreateScanTask(db, TplScanTask(tplId, envId, taskType, GetDefaultRunnerId), fault)

\* services.InitScanResult: the task's initial policy-result rows
InitScanResult(db, taskId) == [db EXCEPT !.policyResults = @ \cup {taskId}]

\* mutant: an environment scan saves the template's pointer
UpdateLastScanTaskIdOnTpl(db, taskId, envId, tplId) ==
  IF db.scanTasks[taskId].type \in {TaskTypeEnvScan, TaskTypeTplScan}
    THEN [db EXCEPT !.tpls[tplId].lastScanTaskId = taskId]
  ELSE db

UpdateLastScanTaskId(db, taskId, envId, tplId) ==
  IF db.scanTasks[taskId].type = TaskTypeEnvScan
    THEN [db EXCEPT !.envs[envId].lastScanTaskId = taskId]
  ELSE IF db.scanTasks[taskId].type = TaskTypeTplScan
    THEN [db EXCEPT !.tpls[tplId].lastScanTaskId = taskId]
  ELSE db

\* a scan type whose last-scan pointer UpdateLastScanTaskId saves
SavesPointer(taskType) == taskType \in {TaskTypeEnvScan, TaskTypeTplScan}

\* what a handler returns, how it left its transaction (none: never begun;
\* open: neither committed nor rolled back), and the rows it committed
Result(err, http, tx, fault, taskId, db) ==
  [err |-> err, http |-> http, tx |-> tx, fault |-> fault, taskId |-> taskId, db |-> db]
Failed(err, http, tx, fault) == Result(err, http, tx, fault, NoTask, Db)

ScanTemplateOrEnvRun(formId, formParse, envId, fault) ==
  LET envR == IF envId # NoId THEN IsScanableEnv(envId, formParse, fault) ELSE Passed
      tplR == IsScanableTpl(formId, envId, formParse, fault)
      runnerId == GetDefaultRunnerId
      taskType == GetScanTaskType(envId, formParse)
      created == IF envId # NoId
                   THEN CreateEnvScanTask(Db, formId, envId, taskType, fault)
                   ELSE CreateScanTask(Db, TplScanTask(formId, envId, taskType, runnerId), fault)
      inited == InitScanResult(created.db, created.id)
      saved == UpdateLastScanTaskId(inited, created.id, envId, formId)
  IN
  IF fault = "panic"
    THEN Failed("panic", StatusUnset, "rolledback", fault)
  ELSE IF envR.err # Ok
    THEN Failed(envR.err, envR.http, IF envR.rolledBack THEN "rolledback" ELSE "open", envR.fault)
  ELSE IF tplR.err # Ok
    THEN Failed(tplR.err, tplR.http, "rolledback", tplR.fault)
  ELSE IF runnerId = NoId
    THEN Failed("NoRunnerAvailable", StatusInternalServerError, "rolledback", "none")
  ELSE IF created.err # Ok
    THEN Failed(created.err, StatusInternalServerError, "rolledback", created.fault)
  ELSE IF fault = "InitScanResult"
    THEN Failed("DBError", StatusUnset, "open", fault)
  ELSE IF fault = "Save" /\ SavesPointer(taskType)
    THEN Failed("DBError", StatusInternalServerError, "rolledback", fault)
  ELSE IF fault = "Commit"
    THEN Failed("DBError", StatusUnset, "rolledback", fault)
  ELSE Result(Ok, StatusUnset, "committed", "none", created.id, saved)

ScanEnvironmentRun(formId, orgEmpty, fault) ==
  LET envR == IsScanableEnv(formId, FALSE, fault)
      tplId == envs[formId].tplId
      tplR == IsScanableTpl(tplId, formId, FALSE, fault)
      taskType == GetScanTaskType(formId, FALSE)
      created == CreateEnvScanTask(Db, tplId, formId, taskType, fault)
      saved == [created.db EXCEPT !.envs[formId].lastScanTaskId = created.id]
      inited == InitScanResult(saved, created.id)
  IN
  IF orgEmpty
    THEN Failed("BadRequest", StatusBadRequest, "none", "none")
  ELSE IF fault = "panic"
    THEN Failed("panic", StatusUnset, "rolledback", fault)
  ELSE IF envR.err # Ok
    THEN Failed(envR.err, envR.http, IF envR.rolledBack THEN "rolledback" ELSE "open", envR.fault)
  ELSE IF tplR.err # Ok
    THEN Failed(tplR.err, tplR.http, IF tplR.rolledBack THEN "rolledback" ELSE "open", tplR.fault)
  ELSE IF created.err # Ok
    THEN Failed(created.err, StatusInternalServerError, "rolledback", created.fault)
  ELSE IF fault = "Save"
    THEN Failed("DBError", StatusInternalServerError, "rolledback", fault)
  ELSE IF fault = "InitScanResult"
    THEN Failed("DBError", StatusInternalServerError, "rolledback", fault)
  ELSE IF fault = "Commit"
    THEN Failed("DBError", StatusUnset, "rolledback", fault)
  ELSE Result(Ok, StatusUnset, "committed", "none", created.id, inited)

\* the database after a handler: its transaction's rows when it committed
Apply(r) ==
  /\ tpls' = r.db.tpls
  /\ envs' = r.db.envs
  /\ scanTasks' = r.db.scanTasks
  /\ policyResults' = r.db.policyResults

Returned(op, tplId, envId, parse, r) ==
  [op |-> op, tplId |-> tplId, envId |-> envId, parse |-> parse, fault |-> r.fault,
   err |-> r.err, http |-> r.http, tx |-> r.tx, taskId |-> r.taskId, req |-> NoReq,
   again |-> FALSE]

ScanTemplateOrEnv(formId, formParse, envId, fault) ==
  LET r == ScanTemplateOrEnvRun(formId, formParse, envId, fault) IN
  /\ r.err = Ok => Len(scanTasks) < MaxScanTasks
  /\ Apply(r)
  /\ call' = Returned("ScanTemplateOrEnv", formId, envId, formParse, r)
  /\ UNCHANGED <<appVars, tasks, defaultRunner, parseVars, doneVars>>

ScanEnvironment(formId, orgEmpty, fault) ==
  LET r == ScanEnvironmentRun(formId, orgEmpty, fault) IN
  /\ r.err = Ok => Len(scanTasks) < MaxScanTasks
  /\ Apply(r)
  /\ call' = Returned("ScanEnvironment", envs[formId].tplId, formId, FALSE, r)
  /\ UNCHANGED <<appVars, tasks, defaultRunner, parseVars, doneVars>>

(* ------------------------- task life cycle --------------------------- *)
IsExitedStatus(status) == status \in {TaskComplete, TaskFailed, TaskTimeout}

\* mutant: a failed task is queued again
NextStatusesRequeue(status) ==
  IF status = TaskPending THEN {TaskRunning}
  ELSE IF status = TaskRunning THEN {TaskComplete, TaskFailed, TaskTimeout}
  ELSE IF status = TaskFailed THEN {TaskPending}
  ELSE {}

\* the statuses a task in `status` can be moved to
NextStatuses(status) ==
  IF status = TaskPending THEN {TaskRunning}
  ELSE IF status = TaskRunning THEN {TaskComplete, TaskFailed, TaskTimeout}
  ELSE {}

\* a row after the runner's report: the container is assigned at the start
Moved(row, kind, id, status) ==
  [row EXCEPT !.status = status,
              !.containerId = IF status = TaskRunning THEN ContainerOf(kind, id) ELSE @]

ScanTaskStep(id, status) ==
  /\ id \in 1..Len(scanTasks)
  /\ status \in NextStatuses(scanTasks[id].status)
  /\ scanTasks' = [scanTasks EXCEPT ![id] = Moved(@, "scan", id, status)]
  /\ UNCHANGED <<appVars, tpls, envs, policyResults, tasks, defaultRunner, call, parseVars,
                 doneVars>>

TaskStep(id, status) ==
  /\ id \in 1..Len(tasks)
  /\ status \in NextStatuses(tasks[id].status)
  /\ tasks' = [tasks EXCEPT ![id] = Moved(@, "task", id, status)]
  /\ UNCHANGED <<appVars, dbVars, defaultRunner, call, parseVars, doneVars>>

(* ------------------------------- stop -------------------------------- *)
\* mutant: the container id is not appended to the request
TaskStopReqNoContainer(runnerId, kind, taskId, containerId) ==
  [runnerId |-> runnerId, kind |-> kind, taskId |-> taskId, containerIds |-> <<>>]

\* runner.TaskStopReq as posted to the runner's stop URL
TaskStopReq(runnerId, kind, taskId, containerId) ==
  [runnerId |-> runnerId, kind |-> kind, taskId |-> taskId,
   containerIds |-> <<containerId>>]

\* mutant: stop marks the task failed
StopMarksFailed(table, taskId) == [table EXCEPT ![taskId].status = TaskFailed]

\* the task tables after stopTaskContainers: it writes to neither
StopLeaves(table, taskId) == table

\* the runner's answer to a stop request that reached it: stopping is safe
\* on a container that is stopped already, or that was never started
RunnerStop(req) == Ok

stopTaskContainers(taskId, isScanTask, found, addrOk, httpOk) ==
  LET table == IF isScanTask THEN scanTasks ELSE tasks
      kind == IF isScanTask THEN "scan" ELSE "task"
      exists == found /\ taskId \in 1..Len(table)
      sent == exists /\ addrOk
      req == TaskStopReq(table[taskId].runnerId, kind, taskId, table[taskId].containerId)
      err == IF ~exists THEN "TaskNotExists"
             ELSE IF ~addrOk THEN "RunnerNotRegistered"
             ELSE IF ~httpOk THEN "RunnerUnreachable"
             ELSE RunnerStop(req)
  IN
  /\ scanTasks' = IF isScanTask /\ exists THEN StopLeaves(scanTasks, taskId) ELSE scanTasks
  /\ tasks' = IF ~isScanTask /\ exists THEN StopLeaves(tasks, taskId) ELSE tasks
  /\ call' = [NoCall EXCEPT
       !.op = IF isScanTask THEN "StopScanTaskContainers" ELSE "StopTaskContainers",
       !.taskId = taskId, !.err = err,
       !.req = IF sent THEN req ELSE NoReq,
       !.again = sent /\ call.err = Ok /\ call.req = req]
  /\ UNCHANGED <<appVars, tpls, envs, policyResults, defaultRunner, parseVars, doneVars>>

StopTaskContainers(taskId, found, addrOk, httpOk) ==
  stopTaskContainers(taskId, FALSE, found, addrOk, httpOk)

StopScanTaskContainers(taskId, found, addrOk, httpOk) ==
  stopTaskContainers(taskId, TRUE, found, addrOk, httpOk)

(* ----------------------- task-done processing ------------------------ *)
EnvStatusActive == "active"
EnvStatusInactive == "inactive"
TaskTypePlan == "plan"
TaskTypeApply == "apply"
TaskTypeDestroy == "destroy"
TaskTypes == {TaskTypePlan, TaskTypeApply, TaskTypeDestroy}

\* a nil *models.Time; a set one is <<t>>
NilTime == <<>>

\* the execution tasks whose completion is processed
DoneTaskIds == 1..MaxDoneTasks

\* an environment that was never deployed
NoEnvAttrs ==
  [status |-> EnvStatusInactive, ttl |-> "", autoDestroyAt |-> NilTime,
   autoDestroyTaskId |-> NoTask, lastResTaskId |-> NoTask]

\* resource addresses and output names of the deployments
Addresses == {"A", "B", "C"}

\* a file of the log store: absent, empty, not decodable, or with a body
File(kind, body) == [kind |-> kind, body |-> body]
Absent == File("absent", <<>>)
EmptyFile == File("empty", <<>>)
Malformed == File("malformed", <<>>)
NoFiles == [state |-> Absent, schema |-> Absent, plan |-> Absent, log |-> Absent]

\* len(bs) > 0 for the bytes readIfExist returns
HasBytes(file) == file.kind \notin {"absent", "empty"}

\* a point of a handler at which the database or the log store fails; the
\* per-resource points carry the address
Point(step, address) == <<step, address>>
At(step) == Point(step, "")

\* no call yet; `failed` holds the points at which a call met a failure,
\* `before` what the rows it is about held when it began, `notified`
\* whether it sent the drift notification
NoDone ==
  [op |-> "none", taskId |-> NoTask, taskType |-> NoId, envId |-> NoId, err |-> Ok,
   failed |-> {}, before |-> {}, cleared |-> FALSE, notified |-> FALSE]

(* ----------------------------- ingestion ------------------------------ *)
StatePoints ==
  {At("StateJsonPath"), At("ProviderSchemaJsonPath"), At("SaveTaskResources"),
   At("SaveTaskOutputs")}
PlanPoints == {At("PlanJsonPath"), At("SaveTaskChanges")}

\* a decodable file; a state lists resource addresses and output names, a
\* plan the addresses of its resource changes
Json(body) == File("json", body)
StateBody(addresses, names) == [resources |-> addresses, outputs |-> names]

\* the rows of a table that belong, or do not belong, to a task
OfTask(rows, taskId) == SelectSeq(rows, LAMBDA r : r.taskId = taskId)
NotOfTask(rows, taskId) == SelectSeq(rows, LAMBDA r : r.taskId # taskId)

\* the rows of a task whose state lists `addresses`, whose outputs are
\* `names`, whose plan changes `addresses`
ResourceRows(taskId, addresses) ==
  [i \in 1..Len(addresses) |-> [taskId |-> taskId, address |-> addresses[i]]]
OutputRows(taskId, names) ==
  [i \in 1..Len(names) |-> [taskId |-> taskId, name |-> names[i]]]
ChangeRows(taskId, addresses) ==
  [i \in 1..Len(addresses) |-> [taskId |-> taskId, address |-> addresses[i]]]

\* mutant: the rows are added to the ones the task has
SaveTaskResourcesAppends(rows, taskId, addresses) == rows \o ResourceRows(taskId, addresses)

\* services.SaveTaskResources, SaveTaskOutputs, SaveTaskChanges: the task's
\* rows are replaced by the ones of the parsed model
SaveTaskResources(rows, taskId, addresses) ==
  NotOfTask(rows, taskId) \o ResourceRows(taskId, addresses)
SaveTaskOutputs(rows, taskId, names) == NotOfTask(rows, taskId) \o OutputRows(taskId, names)
SaveTaskChanges(rows, taskId, addresses) ==
  NotOfTask(rows, taskId) \o ChangeRows(taskId, addresses)

\* mutant: a state that does not unmarshal is passed over in silence
taskDoneProcessStateRunSkipsMalformed(res, outs, taskId, faults) ==
  LET state == files[taskId].state
      schema == files[taskId].schema
      saved == SaveTaskResources(res, taskId, state.body.resources)
      result(err, r, o, failed) ==
        [err |-> err, resources |-> r, outputs |-> o, failed |-> failed]
  IN
  IF At("StateJsonPath") \in faults
    THEN result("read state json", res, outs, {At("StateJsonPath")})
  ELSE IF ~HasBytes(state) \/ state.kind = "malformed"
    THEN result(Ok, res, outs, {})
  ELSE IF At("ProviderSchemaJsonPath") \in faults
    THEN result("read provider schema json", res, outs, {At("ProviderSchemaJsonPath")})
  ELSE IF HasBytes(schema) /\ schema.kind = "malformed"
    THEN result("unmarshal provider schema json", res, outs, {})
  ELSE IF At("SaveTaskResources") \in faults
    THEN result("save task resources", res, outs, {At("SaveTaskResources")})
  ELSE IF At("SaveTaskOutputs") \in faults
    THEN result("save task outputs", saved, outs, {At("SaveTaskOutputs")})
  ELSE result(Ok, saved, SaveTaskOutputs(outs, taskId, state.body.outputs), {})

\* mutant: a failure to save the outputs takes the resources back
taskDoneProcessStateRunUndoes(res, outs, taskId, faults) ==
  LET state == files[taskId].state
      schema == files[taskId].schema
      saved == SaveTaskResources(res, taskId, state.body.resources)
      result(err, r, o, failed) ==
        [err |-> err, resources |-> r, outputs |-> o, failed |-> failed]
  IN
  IF At("StateJsonPath") \in faults
    THEN result("read state json", res, outs, {At("StateJsonPath")})
  ELSE IF ~HasBytes(state)
    THEN result(Ok, res, outs, {})
  ELSE IF state.kind = "malformed"
    THEN result("unmarshal state json", res, outs, {})
  ELSE IF At("ProviderSchemaJsonPath") \in faults
    THEN result("read provider schema json", res, outs, {At("ProviderSchemaJsonPath")})
  ELSE IF HasBytes(schema) /\ schema.kind = "malformed"
    THEN result("unmarshal provider schema json", res, outs, {})
  ELSE IF At("SaveTaskResources") \in faults
    THEN result("save task resources", res, outs, {At("SaveTaskResources")})
  ELSE IF At("SaveTaskOutputs") \in faults
    THEN result("save task outputs", NotOfTask(res, taskId), outs, {At("SaveTaskOutputs")})
  ELSE result(Ok, saved, SaveTaskOutputs(outs, taskId, state.body.outputs), {})

\* what taskDoneProcessState returns and the resource and output rows it
\* leaves: a state file without bytes is passed over; the state, then the
\* provider schema when it has bytes, must unmarshal before anything is
\* saved; the resources are saved before the outputs
taskDoneProcessStateRun(res, outs, taskId, faults) ==
  LET state == files[taskId].state
      schema == files[taskId].schema
      saved == SaveTaskResources(res, taskId, state.body.resources)
      result(err, r, o, failed) ==
        [err |-> err, resources |-> r, outputs |-> o, failed |-> failed]
  IN
  IF At("StateJsonPath") \in faults
    THEN result("read state json", res, outs, {At("StateJsonPath")})
  ELSE IF ~HasBytes(state)
    THEN result(Ok, res, outs, {})
  ELSE IF state.kind = "malformed"
    THEN result("unmarshal state json", res, outs, {})
  ELSE IF At("ProviderSchemaJsonPath") \in faults
    THEN result("read provider schema json", res, outs, {At("ProviderSchemaJsonPath")})
  ELSE IF HasBytes(schema) /\ schema.kind = "malformed"
    THEN result("unmarshal provider schema json", res, outs, {})
  ELSE IF At("SaveTaskResources") \in faults
    THEN result("save task resources", res, outs, {At("SaveTaskResources")})
  ELSE IF At("SaveTaskOutputs") \in faults
    THEN result("save task outputs", saved, outs, {At("SaveTaskOutputs")})
  ELSE result(Ok, saved, SaveTaskOutputs(outs, taskId, state.body.outputs), {})

\* what taskDoneProcessPlan returns and the change rows it leaves
taskDoneProcessPlanRun(chg, taskId, faults) ==
  LET plan == files[taskId].plan
      result(err, c, failed) == [err |-> err, changes |-> c, failed |-> failed]
  IN
  IF At("PlanJsonPath") \in faults
    THEN result("read plan json", chg, {At("PlanJsonPath")})
  ELSE IF ~HasBytes(plan)
    THEN result(Ok, chg, {})
  ELSE IF plan.kind = "malformed"
    THEN result("unmarshal plan json", chg, {})
  ELSE IF At("SaveTaskChanges") \in faults
    THEN result("save task changes", chg, {At("SaveTaskChanges")})
  ELSE result(Ok, SaveTaskChanges(chg, taskId, plan.body), {})

\* the addresses of a task's rows
AddressesOf(rows, taskId) ==
  {OfTask(rows, taskId)[i].address : i \in 1..Len(OfTask(rows, taskId))}

taskDoneProcessState(taskId, faults) ==
  LET r == taskDoneProcessStateRun(resources, outputs, taskId, faults) IN
  /\ resources' = r.resources
  /\ outputs' = r.outputs
  /\ done' = [NoDone EXCEPT
       !.op = "taskDoneProcessState", !.taskId = taskId, !.err = r.err,
       !.failed = r.failed, !.before = AddressesOf(resources, taskId)]
  /\ UNCHANGED <<appVars, dbVars, tasks, defaultRunner, call, parseVars, envAttrs, now,
                 changes, drifts, files>>

taskDoneProcessPlan(taskId, faults) ==
  LET r == taskDoneProcessPlanRun(changes, taskId, faults) IN
  /\ changes' = r.changes
  /\ done' = [NoDone EXCEPT
       !.op = "taskDoneProcessPlan", !.taskId = taskId, !.err = r.err,
       !.failed = r.failed, !.before = AddressesOf(changes, taskId)]
  /\ UNCHANGED <<appVars, dbVars, tasks, defaultRunner, call, parseVars, envAttrs, now,
                 resources, outputs, drifts, files>>

(* ------------------------------- drift -------------------------------- *)
\* the points of a detection pass over a log that can name `addresses`
DriftPointsOf(addresses) ==
  {At("GetTaskPlanStep"), At("TFPlanOutputLogPath"), At("GetEnv"), At("DeleteEnvResourceDrift"),
   At("DeleteEnvResourceDriftByAddressList")}
  \cup {Point("GetResourceIdByAddressAndTaskId", a) : a \in addresses}
  \cup {Point("InsertOrUpdateCronTaskInfo", a) : a \in addresses}

DriftPoints == DriftPointsOf(Addresses)

\* ParseResourceDriftInfo: the drifted addresses the plan log describes,
\* none for a log without bytes
ParseResourceDriftInfo(log) ==
  IF log.kind = "text" THEN {log.body[i] : i \in 1..Len(log.body)} ELSE {}

\* a drift row: the resource it is about (by task and address) and the
\* detection pass whose log described the drift
DriftRow(taskId, address, pass) == [taskId |-> taskId, address |-> address, info |-> pass]

\* services.DeleteEnvResourceDrift: every drift row of the task's resources
DeleteEnvResourceDrift(rows, taskId) == {d \in rows : d.taskId # taskId}

\* services.DeleteEnvResourceDriftByAddressList: the drift rows of the
\* task's resources whose address is not in the list
DeleteEnvResourceDriftByAddressList(rows, taskId, addressList) ==
  {d \in rows : d.taskId # taskId \/ d.address \in addressList}

\* services.GetResourceIdByAddressAndTaskId finds the resource row
ResourceFound(res, address, taskId) ==
  \E i \in 1..Len(res) : res[i].taskId = taskId /\ res[i].address = address

\* services.InsertOrUpdateCronTaskInfo: one row per resource
InsertOrUpdateCronTaskInfo(rows, row) ==
  {d \in rows : ~(d.taskId = row.taskId /\ d.address = row.address)} \cup {row}

RECURSIVE UpsertAll(_, _, _, _)
UpsertAll(rows, taskId, addresses, pass) ==
  IF addresses = {} THEN rows
  ELSE LET a == CHOOSE x \in addresses : TRUE IN
       UpsertAll(InsertOrUpdateCronTaskInfo(rows, DriftRow(taskId, a, pass)), taskId,
                 addresses \ {a}, pass)

\* mutant: rows of addresses that drift no more are not deleted
DriftReconcileAccumulates(rows, res, lastResTaskId, driftInfoMap, pass, faults) ==
  IF driftInfoMap = {}
    THEN IF At("DeleteEnvResourceDrift") \in faults THEN rows
         ELSE DeleteEnvResourceDrift(rows, lastResTaskId)
  ELSE LET found == {a \in driftInfoMap :
                       /\ Point("GetResourceIdByAddressAndTaskId", a) \notin faults
                       /\ ResourceFound(res, a, lastResTaskId)}
           written == {a \in found : Point("InsertOrUpdateCronTaskInfo", a) \notin faults}
       IN UpsertAll(rows, lastResTaskId, written, pass)

\* mutant: an empty detection deletes nothing
DriftReconcileKeepsOnEmpty(rows, res, lastResTaskId, driftInfoMap, pass, faults) ==
  IF driftInfoMap = {}
    THEN rows
  ELSE LET kept == IF At("DeleteEnvResourceDriftByAddressList") \in faults THEN rows
                   ELSE DeleteEnvResourceDriftByAddressList(rows, lastResTaskId, driftInfoMap)
           found == {a \in driftInfoMap :
                       /\ Point("GetResourceIdByAddressAndTaskId", a) \notin faults
                       /\ ResourceFound(res, a, lastResTaskId)}
           written == {a \in found : Point("InsertOrUpdateCronTaskInfo", a) \notin faults}
       IN UpsertAll(kept, lastResTaskId, written, pass)

\* mutant: a failed lookup ends the loop instead of skipping the resource
DriftReconcileStopsAtFailedLookup(rows, res, lastResTaskId, driftInfoMap, pass, faults) ==
  IF driftInfoMap = {}
    THEN IF At("DeleteEnvResourceDrift") \in faults THEN rows
         ELSE DeleteEnvResourceDrift(rows, lastResTaskId)
  ELSE LET kept == IF At("DeleteEnvResourceDriftByAddressList") \in faults THEN rows
                   ELSE DeleteEnvResourceDriftByAddressList(rows, lastResTaskId, driftInfoMap)
           found == {a \in driftInfoMap :
                       /\ Point("GetResourceIdByAddressAndTaskId", a) \notin faults
                       /\ ResourceFound(res, a, lastResTaskId)}
           written == {a \in found : Point("InsertOrUpdateCronTaskInfo", a) \notin faults}
       IN IF found # driftInfoMap THEN kept
          ELSE UpsertAll(kept, lastResTaskId, written, pass)

\* the drift rows after the reconciliation of taskDoneProcessDriftTask: with
\* nothing detected every row of the last-apply task is deleted; otherwise
\* the rows of addresses not detected are deleted and one row is upserted
\* per detected address whose resource is found. A failed delete is logged,
\* a failed lookup skips the resource, the upsert's error is dropped.
DriftReconcile(rows, res, lastResTaskId, driftInfoMap, pass, faults) ==
  IF driftInfoMap = {}
    THEN IF At("DeleteEnvResourceDrift") \in faults THEN rows
         ELSE DeleteEnvResourceDrift(rows, lastResTaskId)
  ELSE LET kept == IF At("DeleteEnvResourceDriftByAddressList") \in faults THEN rows
                   ELSE DeleteEnvResourceDriftByAddressList(rows, lastResTaskId, driftInfoMap)
           found == {a \in driftInfoMap :
                       /\ Point("GetResourceIdByAddressAndTaskId", a) \notin faults
                       /\ ResourceFound(res, a, lastResTaskId)}
           written == {a \in found : Point("InsertOrUpdateCronTaskInfo", a) \notin faults}
       IN UpsertAll(kept, lastResTaskId, written, pass)

\* the addresses that have a drift row among the resources of a task
DriftAddresses(rows, taskId) == {d.address : d \in {x \in rows : x.taskId = taskId}}

\* what taskDoneProcessDriftTask returns and the drift rows it leaves: a
\* failure to find the plan step or to read its log is logged and ends the
\* pass; a failure to read the environment is returned
taskDoneProcessDriftTaskRun(rows, res, taskId, envId, faults) ==
  LET lastResTaskId == envAttrs[envId].lastResTaskId
      driftInfoMap == ParseResourceDriftInfo(files[taskId].log)
      lookups == {Point("GetResourceIdByAddressAndTaskId", a) : a \in driftInfoMap}
      upserts == {Point("InsertOrUpdateCronTaskInfo", a) :
                    a \in {x \in driftInfoMap :
                             /\ Point("GetResourceIdByAddressAndTaskId", x) \notin faults
                             /\ ResourceFound(res, x, lastResTaskId)}}
      reached == IF driftInfoMap = {} THEN {At("DeleteEnvResourceDrift")}
                 ELSE {At("DeleteEnvResourceDriftByAddressList")} \cup lookups \cup upserts
  IN
  IF At("GetTaskPlanStep") \in faults
    THEN [err |-> Ok, drifts |-> rows, failed |-> {At("GetTaskPlanStep")}, notified |-> FALSE]
  ELSE IF At("TFPlanOutputLogPath") \in faults
    THEN [err |-> Ok, drifts |-> rows, failed |-> {At("TFPlanOutputLogPath")},
          notified |-> FALSE]
  ELSE IF At("GetEnv") \in faults
    THEN [err |-> "GetEnv", drifts |-> rows, failed |-> {At("GetEnv")}, notified |-> FALSE]
  ELSE [err |-> Ok,
        drifts |-> DriftReconcile(rows, res, lastResTaskId, driftInfoMap, taskId, faults),
        failed |-> faults \cap reached,
        notified |-> driftInfoMap # {}]

taskDoneProcessDriftTask(taskId, envId, faults) ==
  LET r == taskDoneProcessDriftTaskRun(drifts, resources, taskId, envId, faults) IN
  /\ drifts' = r.drifts
  /\ done' = [NoDone EXCEPT
       !.op = "taskDoneProcessDriftTask", !.taskId = taskId, !.envId = envId,
       !.err = r.err, !.failed = r.failed, !.notified = r.notified,
       !.before = DriftAddresses(drifts, envAttrs[envId].lastResTaskId)]
  /\ UNCHANGED <<appVars, dbVars, tasks, defaultRunner, call, parseVars, envAttrs, now,
                 resources, outputs, changes, files>>

(* ------------------------ the ingestion pipeline ---------------------- *)
\* what the task manager does with a finished task: state, then plan, then
\* the drift log, each step's error logged and the next step run
processTaskDone(taskId, envId, faults) ==
  LET st == taskDoneProcessStateRun(resources, outputs, taskId, faults)
      pl == taskDoneProcessPlanRun(changes, taskId, faults)
      dr == taskDoneProcessDriftTaskRun(drifts, st.resources, taskId, envId, faults)
  IN
  /\ resources' = st.resources
  /\ outputs' = st.outputs
  /\ changes' = pl.changes
  /\ drifts' = dr.drifts
  /\ done' = [NoDone EXCEPT
       !.op = "processTaskDone", !.taskId = taskId, !.envId = envId,
       !.err = Ok, !.failed = st.failed \cup pl.failed \cup dr.failed,
       !.notified = dr.notified, !.before = AddressesOf(resources, taskId)]
  /\ UNCHANGED <<appVars, dbVars, tasks, defaultRunner, call, parseVars, envAttrs, now, files>>

(* ---------------------------- auto-destroy ---------------------------- *)
\* time-to-live strings: unset, zero, one hour, and one ParseTTL rejects
TTLs == {"", "0", "1h", "1x"}

\* services.ParseTTL: the duration in hours
ParseTTL(ttl) ==
  IF ttl = "1h" THEN [err |-> Ok, hours |-> 1]
  ELSE IF ttl = "0" \/ ttl = "" THEN [err |-> Ok, hours |-> 0]
  ELSE [err |-> "invalid duration", hours |-> 0]

AutoDestroyPoints == {At("GetEnv"), At("UpdateEnv")}

\* mutant: an apply schedules whether or not a time is already set
AutoDestroyAttrsReschedules(env, taskType) ==
  LET cleared == IF taskType = TaskTypeDestroy /\ env.status = EnvStatusInactive
                   THEN [env EXCEPT !.autoDestroyAt = NilTime, !.autoDestroyTaskId = NoTask]
                   ELSE env
      ttl == ParseTTL(env.ttl)
  IN
  IF /\ taskType = TaskTypeApply
     /\ env.status = EnvStatusActive
     /\ env.ttl # ""
     /\ env.ttl # "0"
    THEN IF ttl.err # Ok THEN [err |-> ttl.err, env |-> env]
         ELSE [err |-> Ok, env |-> [cleared EXCEPT !.autoDestroyAt = <<now + ttl.hours>>]]
  ELSE [err |-> Ok, env |-> cleared]

\* mutant: a time-to-live of "0" schedules like any other
AutoDestroyAttrsSchedulesZero(env, taskType) ==
  LET cleared == IF taskType = TaskTypeDestroy /\ env.status = EnvStatusInactive
                   THEN [env EXCEPT !.autoDestroyAt = NilTime, !.autoDestroyTaskId = NoTask]
                   ELSE env
      ttl == ParseTTL(env.ttl)
  IN
  IF /\ taskType = TaskTypeApply
     /\ env.status = EnvStatusActive
     /\ env.autoDestroyAt = NilTime
     /\ env.ttl # ""
    THEN IF ttl.err # Ok THEN [err |-> ttl.err, env |-> env]
         ELSE [err |-> Ok, env |-> [cleared EXCEPT !.autoDestroyAt = <<now + ttl.hours>>]]
  ELSE [err |-> Ok, env |-> cleared]

\* mutant: the destroy branch forgets the scheduled destroy task
AutoDestroyAttrsKeepsTaskId(env, taskType) ==
  LET cleared == IF taskType = TaskTypeDestroy /\ env.status = EnvStatusInactive
                   THEN [env EXCEPT !.autoDestroyAt = NilTime]
                   ELSE env
      ttl == ParseTTL(env.ttl)
  IN
  IF /\ taskType = TaskTypeApply
     /\ env.status = EnvStatusActive
     /\ env.autoDestroyAt = NilTime
     /\ env.ttl # ""
     /\ env.ttl # "0"
    THEN IF ttl.err # Ok THEN [err |-> ttl.err, env |-> env]
         ELSE [err |-> Ok, env |-> [cleared EXCEPT !.autoDestroyAt = <<now + ttl.hours>>]]
  ELSE [err |-> Ok, env |-> cleared]

\* the environment row with updateAttrs applied, or ParseTTL's error: a
\* destroy of an inactive environment clears the time and the scheduled
\* task; an apply into an active environment with a ttl and no time set
\* sets the time to now + ttl
AutoDestroyAttrs(env, taskType) ==
  LET cleared == IF taskType = TaskTypeDestroy /\ env.status = EnvStatusInactive
                   THEN [env EXCEPT !.autoDestroyAt = NilTime, !.autoDestroyTaskId = NoTask]
                   ELSE env
      ttl == ParseTTL(env.ttl)
  IN
  IF /\ taskType = TaskTypeApply
     /\ env.status = EnvStatusActive
     /\ env.autoDestroyAt = NilTime
     /\ env.ttl # ""
     /\ env.ttl # "0"
    THEN IF ttl.err # Ok THEN [err |-> ttl.err, env |-> env]
         ELSE [err |-> Ok, env |-> [cleared EXCEPT !.autoDestroyAt = <<now + ttl.hours>>]]
  ELSE [err |-> Ok, env |-> cleared]

taskDoneProcessAutoDestroyRun(envId, taskType, faults) ==
  LET env == envAttrs[envId]
      attrs == AutoDestroyAttrs(env, taskType)
  IN
  IF At("GetEnv") \in faults
    THEN [err |-> "get env", env |-> env, failed |-> {At("GetEnv")}]
  ELSE IF attrs.err # Ok
    THEN [err |-> attrs.err, env |-> env, failed |-> {}]
  ELSE IF At("UpdateEnv") \in faults
    THEN [err |-> "update environment", env |-> env, failed |-> {At("UpdateEnv")}]
  ELSE [err |-> Ok, env |-> attrs.env, failed |-> {}]

taskDoneProcessAutoDestroy(envId, taskType, faults) ==
  LET r == taskDoneProcessAutoDestroyRun(envId, taskType, faults) IN
  /\ envAttrs' = [envAttrs EXCEPT ![envId] = r.env]
  /\ done' = [NoDone EXCEPT
       !.op = "taskDoneProcessAutoDestroy", !.taskType = taskType, !.envId = envId,
       !.err = r.err, !.failed = r.failed, !.before = {envAttrs[envId]},
       !.cleared = \/ done.cleared
                   \/ /\ r.err = Ok
                      /\ taskType = TaskTypeDestroy
                      /\ envAttrs[envId].status = EnvStatusInactive]
  /\ UNCHANGED <<appVars, dbVars, tasks, defaultRunner, call, parseVars, now, resources,
                 outputs, changes, drifts, files>>

\* task finalization moves the environment: a finished apply leaves it
\* active, a finished destroy inactive
ChangeEnvStatus(envId, taskType) ==
  /\ taskType \in {TaskTypeApply, TaskTypeDestroy}
  /\ envAttrs' = [envAttrs EXCEPT ![envId].status =
                    IF taskType = TaskTypeApply THEN EnvStatusActive ELSE EnvStatusInactive]
  /\ UNCHANGED <<appVars, dbVars, tasks, defaultRunner, call, parseVars, now, resources,
                 outputs, changes, drifts, files, done>>

\* the scheduler creates the destroy task of an active environment whose
\* time has come and records it on the environment
AutoDestroyDue(envId, taskId) ==
  /\ envAttrs[envId].status = EnvStatusActive
  /\ envAttrs[envId].autoDestroyAt # NilTime
  /\ envAttrs[envId].autoDestroyAt[1] <= now
  /\ envAttrs[envId].autoDestroyTaskId = NoTask
  /\ envAttrs' = [envAttrs EXCEPT ![envId].autoDestroyTaskId = taskId]
  /\ UNCHANGED <<appVars, dbVars, tasks, defaultRunner, call, parseVars, now, resources,
                 outputs, changes, drifts, files, done>>

\* an hour passes
Tick ==
  /\ now < MaxNow
  /\ now' = now + 1
  /\ UNCHANGED <<appVars, dbVars, tasks, defaultRunner, call, parseVars, envAttrs, resources,
                 outputs, changes, drifts, files, done>>

(* ------------------------- ParseTemplate ----------------------------- *)
ParseResp == "ParseResp"
ParseError == "parse tempalte error"
ParseTimeoutError == "parse tempalte timeout"
ParseExecuteError == "execute parse tempalte error"

\* the request up to the wait: the environment lookup, then the parse-only
\* scan request; the tickers are created once the scan task exists
ParseTemplateCall(templateId, hasEnvId, formEnvId, envFound, fault) ==
  LET tplId == IF hasEnvId THEN envs[formEnvId].tplId ELSE templateId
      envId == IF hasEnvId THEN formEnvId ELSE NoId
      r == ScanTemplateOrEnvRun(tplId, TRUE, envId, fault)
  IN
  /\ ppc \in {"idle", "done"}
  /\ pCalls < MaxParseCalls
  /\ pCalls' = pCalls + 1
  /\ pSeen' = NoId
  /\ tickerC' = FALSE
  /\ timeoutC' = FALSE
  /\ elapsed' = 0
  /\ IF hasEnvId /\ ~envFound
       THEN /\ ppc' = "done"
            /\ pResult' = "EnvNotExists"
            /\ pTaskId' = NoTask
            /\ UNCHANGED <<dbVars, call>>
       ELSE /\ r.err = Ok => Len(scanTasks) < MaxScanTasks
            /\ Apply(r)
            /\ call' = Returned("ScanTemplateOrEnv", tplId, envId, TRUE, r)
            /\ ppc' = IF r.err = Ok THEN "read" ELSE "done"
            /\ pResult' = r.err
            /\ pTaskId' = r.taskId
  /\ UNCHANGED <<appVars, tasks, defaultRunner, doneVars>>

\* services.GetScanTaskById and the tests on what it returned
PollRead(found, readOk) ==
  LET status == scanTasks[pTaskId].status IN
  /\ ppc = "read"
  /\ IF ~found
       THEN /\ ppc' = "done"
            /\ pResult' = ParseError
            /\ pSeen' = pSeen
       ELSE /\ pSeen' = status
            /\ ppc' = IF IsExitedStatus(status) THEN "done" ELSE "select"
            /\ pResult' = IF ~IsExitedStatus(status) THEN pResult
                          ELSE IF status # TaskComplete THEN ParseExecuteError
                          ELSE IF readOk THEN ParseResp
                          ELSE ParseError
  /\ UNCHANGED <<appVars, dbVars, tasks, defaultRunner, call, pTaskId, pCalls, tickerC, timeoutC,
                 elapsed, doneVars>>

\* case <-ticker.C
SelectTick ==
  /\ ppc = "select"
  /\ tickerC
  /\ tickerC' = FALSE
  /\ ppc' = "read"
  /\ UNCHANGED <<appVars, dbVars, tasks, defaultRunner, call, pTaskId, pSeen, pResult, pCalls,
                 timeoutC, elapsed, doneVars>>

\* mutant: the timeout case polls on
AfterTimeoutPollsOn == "read"

\* where the wait goes once timeout.C is received
AfterTimeout == "done"

\* case <-timeout.C
SelectTimeout ==
  /\ ppc = "select"
  /\ timeoutC
  /\ timeoutC' = FALSE
  /\ ppc' = AfterTimeout
  /\ pResult' = ParseTimeoutError
  /\ UNCHANGED <<appVars, dbVars, tasks, defaultRunner, call, pTaskId, pSeen, pCalls, tickerC,
                 elapsed, doneVars>>

\* a second passes while ParseTemplate waits: the ticker sends, and so does
\* the timeout ticker when its period is reached (a channel buffers one tick)
TimePasses ==
  /\ ppc \in {"read", "select"}
  /\ elapsed' = IF elapsed < ParseTimeoutSeconds THEN elapsed + PollSeconds ELSE elapsed
  /\ tickerC' = TRUE
  /\ timeoutC' = (timeoutC \/ (elapsed < ParseTimeoutSeconds /\ elapsed' >= ParseTimeoutSeconds))
  /\ UNCHANGED <<appVars, dbVars, tasks, defaultRunner, call, ppc, pTaskId, pSeen, pResult, pCalls,
                 doneVars>>

(* ---------------------------- policy test ---------------------------- *)
PolicyStatusPassed == "passed"
PolicyStatusViolated == "violated"
PolicyStatusFailed == "failed"
PolicyStatusSuppressed == "suppressed"
PolicyStatusPending == "pending"
\* the zero value of PolicyTestResp.PolicyStatus
PolicyStatusNone == ""

\* the calls of PolicyTest before the evaluation that can fail
PolicyTestFaults == {"none", "MkdirTemp", "WriteRego", "WriteInput"}

\* a test request: whether form.Input is JSON, the runtime's failure, and
\* what policy.RegoParse answers, an error or a result with its violations
PolicyTestArgs(n) ==
  [op : {"PolicyTest"}, inputValid : BOOLEAN, fault : PolicyTestFaults,
   regoErr : BOOLEAN, violations : 0..n]

\* (&policy.Rego{}).ParseResource(result): the violating resources
ParseResource(result) == [i \in 1..result.violations |-> i]

\* what PolicyTest returns: the response (none for a nil response), the
\* error, and whether policy.RegoParse was reached
PolicyTestResp(hasResp, err, data, error, policyStatus, evaluated) ==
  [op |-> "PolicyTest", hasResp |-> hasResp, err |-> err, data |-> data, error |-> error,
   policyStatus |-> policyStatus, evaluated |-> evaluated]

\* mutant: an evaluator error is reported as passed
PolicyTestRunErrorPasses(form) ==
  IF ~form.inputValid
    THEN PolicyTestResp(TRUE, Ok, "empty", "invalid input", PolicyStatusNone, FALSE)
  ELSE IF form.fault # "none"
    THEN PolicyTestResp(FALSE, "InternalError", "none", "", PolicyStatusNone, FALSE)
  ELSE IF form.regoErr
    THEN PolicyTestResp(TRUE, Ok, "empty", "rego", PolicyStatusPassed, TRUE)
  ELSE PolicyTestResp(TRUE, Ok, "result", "",
         IF Len(ParseResource(form)) > 0 THEN PolicyStatusViolated ELSE PolicyStatusPassed,
         TRUE)

PolicyTestRun(form) ==
  IF ~form.inputValid
    THEN PolicyTestResp(TRUE, Ok, "empty", "invalid input", PolicyStatusNone, FALSE)
  ELSE IF form.fault # "none"
    THEN PolicyTestResp(FALSE, "InternalError", "none", "", PolicyStatusNone, FALSE)
  ELSE IF form.regoErr
    THEN PolicyTestResp(TRUE, Ok, "empty", "rego", PolicyStatusFailed, TRUE)
  ELSE PolicyTestResp(TRUE, Ok, "result", "",
         IF Len(ParseResource(form)) > 0 THEN PolicyStatusViolated ELSE PolicyStatusPassed,
         TRUE)

PolicyTest ==
  /\ arg.op = "PolicyTest"
  /\ resp = NoResp
  /\ resp' = PolicyTestRun(arg)
  /\ UNCHANGED <<restVars, arg, bg>>

(* --------------------------- scan report ----------------------------- *)
\* a time.Time: the day, and whether it is early (0) or late (1) in the day
Time(day, tod) == [day |-> day, tod |-> tod]
Times == [day : 0..MaxDay, tod : 0..1]

\* t.After(u)
After(t, u) == t.day > u.day \/ (t.day = u.day /\ t.tod > u.tod)

\* t.AddDate(0, 0, 1)
AddDate(t) == [t EXCEPT !.day = @ + 1]

\* fmt.Sprintf("%02d-%02d", m, d) of a time and s.Date[5:10] of a row: the
\* month and the day, without the year
DateLabel(day) == day % YearDays

\* the loop that fills timePoints
RECURSIVE TimePoints(_, _)
TimePoints(start, to) ==
  IF After(start, to) THEN <<>>
  ELSE <<DateLabel(start.day)>> \o TimePoints(AddDate(start), to)

\* a Percent: numerator and denominator of the float it stands for
Percent(n) == <<n, 1>>
\* Percent / Percent(total)
Quot(p, total) == <<p[1], p[2] * total>>

ReportStatuses == {PolicyStatusPassed, PolicyStatusViolated, PolicyStatusPending}

\* services.GetPolicyScanStatus: one row per day and status that has
\* results between from and to, in any order
ScanStatusRows(from, to) ==
  LET Row == [day : from.day..to.day, status : ReportStatuses, count : 1..MaxCount]
      Seqs == UNION {[1..n -> Row] : n \in 0..MaxRows}
  IN {rows \in Seqs : \A i, j \in 1..Len(rows) :
        (rows[i].day = rows[j].day /\ rows[i].status = rows[j].status) => i = j}

ReportFaults == {"none", "GetPolicyScanStatus", "GetPolicyScanByTarget"}

\* the report requests with form.From and form.To given, and what the two
\* queries answer
ReportArgs(froms) ==
  UNION {UNION {
    {[op |-> "PolicyScanReport", from |-> from, to |-> to, rows |-> rows, fault |-> fault] :
       rows \in ScanStatusRows(from, to), fault \in ReportFaults} :
    to \in {t \in Times : ~After(from, t)}} :
    from \in froms}

\* the index of the first column with this label, 0 when there is none
IndexOf(column, d) ==
  IF \E i \in 1..Len(column) : column[i] = d
    THEN CHOOSE i \in 1..Len(column) :
           column[i] = d /\ \A j \in 1..(i - 1) : column[j] # d
  ELSE 0

\* the report under construction: both polylines, the pie chart's counts
\* and the error of the row that fits no column
NewReport(timePoints) ==
  [column |-> timePoints,
   total |-> [i \in 1..Len(timePoints) |-> 0],
   rate |-> [i \in 1..Len(timePoints) |-> Percent(0)],
   summary |-> [s \in ReportStatuses |-> 0],
   err |-> Ok]

\* one pass of the loop over scanStatus
FoldStatusRow(report, s) ==
  LET idx == IndexOf(report.column, DateLabel(s.day))
      total == [report.total EXCEPT
                  ![idx] = IF s.status # PolicyStatusPending THEN @ + s.count ELSE @]
      passed == [report.rate EXCEPT
                  ![idx] = IF s.status = PolicyStatusPassed THEN Percent(s.count) ELSE @]
      rate == [i \in 1..Len(passed) |->
                 IF total[i] = 0 THEN Percent(0) ELSE Quot(passed[i], total[i])]
  IN IF idx = 0 THEN [report EXCEPT !.err = "InternalError"]
     ELSE [report EXCEPT !.total = total, !.rate = rate,
                         !.summary[s.status] = IF s.status # PolicyStatusPending
                                                 THEN @ + s.count ELSE @]

\* the loop over scanStatus from row i on: it returns at the first row
\* that fits no column
RECURSIVE FoldStatus(_, _, _)
FoldStatus(report, rows, i) ==
  IF i > Len(rows) \/ report.err # Ok THEN report
  ELSE FoldStatus(FoldStatusRow(report, rows[i]), rows, i + 1)

PolicyScanReportResp(err, report) ==
  [op |-> "PolicyScanReport", err |-> err,
   column |-> IF err = Ok THEN report.column ELSE <<>>,
   total |-> IF err = Ok THEN report.total ELSE <<>>,
   rate |-> IF err = Ok THEN report.rate ELSE <<>>,
   summary |-> IF err = Ok THEN report.summary ELSE [s \in ReportStatuses |-> 0]]

PolicyScanReportRun(form) ==
  LET report == FoldStatus(NewReport(TimePoints(form.from, form.to)), form.rows, 1)
  IN IF form.fault = "GetPolicyScanStatus" THEN PolicyScanReportResp("DBError", report)
     ELSE IF report.err # Ok THEN PolicyScanReportResp(report.err, report)
     ELSE IF form.fault = "GetPolicyScanByTarget" THEN PolicyScanReportResp("DBError", report)
     ELSE PolicyScanReportResp(Ok, report)

PolicyScanReport ==
  /\ arg.op = "PolicyScanReport"
  /\ resp = NoResp
  /\ resp' = PolicyScanReportRun(arg)
  /\ UNCHANGED <<restVars, arg, bg>>

(* --------------------------- result groups --------------------------- *)
\* policy_group_name of a result row, in the order the query sorts them;
\* the empty name is that of a row without a group
GroupNames == <<"", "g1", "g2">>
GroupIds == {"ga", "gb"}
ResultStatuses ==
  {PolicyStatusPassed, PolicyStatusViolated, PolicyStatusFailed, PolicyStatusSuppressed}

\* PolicyResult: the columns groupByGroup reads
PolicyResult ==
  [groupId : GroupIds, groupName : {GroupNames[i] : i \in 1..Len(GroupNames)},
   status : ResultStatuses]

\* the pages of at most n result rows
GroupArgs(n) ==
  {[op |-> "groupByGroup", results |-> results] :
     results \in UNION {[1..k -> PolicyResult] : k \in 0..n}}

\* &PolicyResultGroup{Id: ..., Name: ...}: no rows, all counts zero
PolicyResultGroup(id, name) ==
  [id |-> id, name |-> name, summary |-> [s \in ResultStatuses |-> 0], list |-> <<>>]

\* lastGroup.List = append(...) and the switch on r.Status
AddResult(group, r) ==
  [group EXCEPT !.list = Append(@, r),
                !.summary = IF r.status \in ResultStatuses
                              THEN [@ EXCEPT ![r.status] = @ + 1] ELSE @]

\* the loop of groupByGroup from row i on. lastGroup is resultGroups[last],
\* or, while last is 0, the group made before the loop, which is in no list
RECURSIVE GroupFrom(_, _, _, _, _)
GroupFrom(results, i, resultGroups, first, last) ==
  IF i > Len(results) THEN resultGroups
  ELSE LET r == results[i]
           lastName == IF last = 0 THEN first.name ELSE resultGroups[last].name
       IN IF lastName # r.groupName
            THEN GroupFrom(results, i + 1,
                   Append(resultGroups,
                          AddResult(PolicyResultGroup(r.groupId, r.groupName), r)),
                   first, Len(resultGroups) + 1)
          ELSE IF last = 0
            THEN GroupFrom(results, i + 1, resultGroups, AddResult(first, r), 0)
          ELSE GroupFrom(results, i + 1,
                 [resultGroups EXCEPT ![last] = AddResult(@, r)], first, last)

groupByGroupRun(results) ==
  GroupFrom(results, 1, <<>>, PolicyResultGroup(NoId, ""), 0)

groupByGroup ==
  /\ arg.op = "groupByGroup"
  /\ resp = NoResp
  /\ resp' = [op |-> "groupByGroup", groups |-> groupByGroupRun(arg.results)]
  /\ UNCHANGED <<restVars, arg, bg>>

(* ------------------------- template requests ------------------------- *)
\* the id services.CreateTemplate gives the next template
NewTplId == "tpl2"

\* the calls of CreateTemplate and UpdateTemplate up to the commit that can
\* fail; DBError stands for each write between the first and the commit
TemplateFaults ==
  {"none", "GetTemplateById", "OrgId", "TemplateAlreadyExists", "DBError", "Commit"}

\* the calls after the commit that can fail
WebhookFaults == {"none", "GetWebhookToken", "SetWebhook"}

\* a form value of UpdateTemplate whose key is absent
NoKey == "nokey"

\* the fields of the two forms the handlers' control flow reads
CreateTemplateForms == [policyEnable : BOOLEAN]
UpdateTemplateForms ==
  [id : TplIds \cup {NewTplId}, policyEnable : {NoKey, "true", "false"},
   status : {NoKey, "disable"}]

\* a template request up to its go statement: the error and its HTTP
\* class, the template it works on, the rows it committed, and the template
\* whose scan it starts in a goroutine
TemplateResult(err, http, tplId, rows, spawned) ==
  [err |-> err, http |-> http, tplId |-> tplId, tpls |-> rows, spawned |-> spawned]

CreateTemplateRun(form, fault) ==
  LET rows == [t \in DOMAIN tpls \cup {NewTplId} |->
                 IF t = NewTplId
                   THEN [status |-> "enable", policyEnable |-> form.policyEnable,
                         lastScanTaskId |-> NoTask]
                 ELSE tpls[t]]
      spawned == IF form.policyEnable THEN NewTplId ELSE NoId
  IN
  IF fault = "TemplateAlreadyExists"
    THEN TemplateResult("TemplateAlreadyExists", StatusBadRequest, NoId, tpls, NoId)
  ELSE IF fault \in {"DBError", "Commit"}
    THEN TemplateResult("DBError", StatusUnset, NoId, tpls, NoId)
  ELSE TemplateResult(Ok, StatusUnset, NewTplId, rows, spawned)

UpdateTemplateRun(form, fault) ==
  LET rows == [tpls EXCEPT
                 ![form.id].status = IF form.status # NoKey THEN form.status ELSE @,
                 ![form.id].policyEnable =
                    IF form.policyEnable # NoKey THEN form.policyEnable = "true" ELSE @]
      spawned == IF form.policyEnable = "true" THEN form.id ELSE NoId
  IN
  IF form.id \notin DOMAIN tpls \/ fault = "GetTemplateById"
    THEN TemplateResult("TemplateNotExists", StatusBadRequest, NoId, tpls, NoId)
  ELSE IF fault = "OrgId"
    THEN TemplateResult("TemplateNotExists", StatusUnset, NoId, tpls, NoId)
  ELSE IF fault \in {"DBError", "Commit"}
    THEN TemplateResult("DBError", StatusUnset, NoId, tpls, NoId)
  ELSE TemplateResult(Ok, StatusUnset, form.id, rows, spawned)

\* a template request is between its commit and its return
InFlight == resp.op \in {"CreateTemplate", "UpdateTemplate"} /\ resp.phase = "webhook"

\* the request from its start to its go statement: it returns at a failure,
\* and goes on to the webhook once it has committed
TemplateCommits(op, r) ==
  /\ ~bg.crashed
  /\ ~InFlight
  /\ r.spawned # NoId => Len(bg.pending) < MaxGoroutines
  /\ tpls' = r.tpls
  /\ resp' = [op |-> op, phase |-> IF r.err = Ok THEN "webhook" ELSE "returned",
              err |-> r.err, http |-> r.http, tplId |-> r.tplId, spawned |-> r.spawned]
  /\ bg' = [bg EXCEPT !.pending = IF r.spawned # NoId THEN Append(@, r.spawned) ELSE @]
  /\ UNCHANGED <<envs, scanTasks, policyResults, tasks, defaultRunner, call, parseVars,
                 doneVars, arg>>

CreateTemplate(form, fault) ==
  /\ NewTplId \notin DOMAIN tpls
  /\ TemplateCommits("CreateTemplate", CreateTemplateRun(form, fault))

UpdateTemplate(form, fault) ==
  TemplateCommits("UpdateTemplate", UpdateTemplateRun(form, fault))

\* the rest of the request, after the go statement: the webhook is set and
\* the template returned; only the token's error is returned
SetWebhook(fault) ==
  /\ ~bg.crashed
  /\ InFlight
  /\ resp' = [resp EXCEPT !.phase = "returned",
                          !.err = IF fault = "GetWebhookToken" THEN fault ELSE Ok,
                          !.tplId = IF fault = "GetWebhookToken" THEN NoId ELSE @]
  /\ UNCHANGED <<restVars, arg, bg>>

\* the goroutine: ScanTemplateOrEnv(c, scanForm, ""), its error logged. A
\* panic in the scan is raised again by the scan's deferred handler, no
\* function of the goroutine recovers it, and the runtime ends the process
BackgroundScan(i, fault) ==
  /\ ~bg.crashed
  /\ i \in 1..Len(bg.pending)
  /\ LET tplId == bg.pending[i]
         r == ScanTemplateOrEnvRun(tplId, FALSE, NoId, fault)
     IN /\ r.err = Ok => Len(scanTasks) < MaxScanTasks
        /\ Apply(r)
        /\ bg' = [pending |-> SubSeq(bg.pending, 1, i - 1)
                                \o SubSeq(bg.pending, i + 1, Len(bg.pending)),
                  log |-> IF r.err \notin {Ok, "panic"}
                            THEN [tplId |-> tplId, err |-> r.err] ELSE bg.log,
                  crashed |-> r.err = "panic"]
  /\ UNCHANGED <<tasks, defaultRunner, call, parseVars, doneVars, arg, resp>>

(* --------------------------- ScanTemplates --------------------------- *)
\* the ids a batch form can name: the two templates and one that is absent
BatchTplIds == {"tpl1", NewTplId}
AbsentTplId == "tpl0"

RECURSIVE SeqsUpTo(_, _)
\* the sequences over s of length n or less
SeqsUpTo(s, n) ==
  IF n = 0 THEN {<<>>}
  ELSE LET shorter == SeqsUpTo(s, n - 1) IN
       shorter \cup {Append(q, x) : q \in {p \in shorter : Len(p) = n - 1}, x \in s}

\* forms.ScanTemplateForms
ScanTemplateForms == SeqsUpTo(BatchTplIds \cup {AbsentTplId}, MaxIds)

\* mutant: the loop goes on to the next id when a scan fails
ScanTemplatesAfterSkipsFailure(s, r) ==
  LET appended == IF r.err = Ok THEN Append(s.scanTasks, r.taskId) ELSE s.scanTasks
      last == s.next = Len(s.ids)
  IN
  IF r.err = "panic"
    THEN [s EXCEPT !.next = @ + 1, !.txs = Append(@, r.tx), !.phase = "panicked"]
  ELSE [s EXCEPT !.next = @ + 1, !.txs = Append(@, r.tx), !.scanTasks = appended,
                 !.phase = IF last THEN "returned" ELSE "loop", !.list = last]

\* the loop of ScanTemplates after the scan of ids[next] returned r: an
\* error is returned with a nil list, a task is appended, and the list is
\* returned after the last id; a panic of the scan leaves through the loop
ScanTemplatesAfter(s, r) ==
  LET appended == Append(s.scanTasks, r.taskId)
      last == s.next = Len(s.ids)
  IN
  IF r.err = "panic"
    THEN [s EXCEPT !.next = @ + 1, !.txs = Append(@, r.tx), !.phase = "panicked"]
  ELSE IF r.err # Ok
    THEN [s EXCEPT !.next = @ + 1, !.txs = Append(@, r.tx), !.phase = "returned",
                   !.err = r.err]
  ELSE [s EXCEPT !.next = @ + 1, !.txs = Append(@, r.tx), !.scanTasks = appended,
                 !.phase = IF last THEN "returned" ELSE "loop", !.list = last]

\* a batch request is in its loop
InLoop == resp.op = "ScanTemplates" /\ resp.phase = "loop"

\* the request up to its first scan; an empty form returns the empty list
ScanTemplates(ids) ==
  /\ ~InLoop
  /\ resp' = [op |-> "ScanTemplates", ids |-> ids, next |-> 1, scanTasks |-> <<>>,
              txs |-> <<>>, phase |-> IF ids = <<>> THEN "returned" ELSE "loop",
              err |-> Ok, list |-> ids = <<>>, before |-> Len(scanTasks)]
  /\ UNCHANGED <<restVars, arg, bg>>

\* one turn of the loop: ScanTemplateOrEnv(c, tplForm, "") for ids[next]
ScanTemplatesStep(fault) ==
  /\ InLoop
  /\ LET r == ScanTemplateOrEnvRun(resp.ids[resp.next], FALSE, NoId, fault) IN
       /\ r.err = Ok => Len(scanTasks) < MaxScanTasks
       /\ Apply(r)
       /\ resp' = ScanTemplatesAfter(resp, r)
  /\ UNCHANGED <<tasks, defaultRunner, call, parseVars, doneVars, arg, bg>>

(* --------------------------- specification --------------------------- *)
\* nothing has been deployed and no finished task has been processed
DoneIdle ==
  /\ envAttrs = [v \in EnvIds |-> NoEnvAttrs]
  /\ now = 0
  /\ resources = <<>>
  /\ outputs = <<>>
  /\ changes = <<>>
  /\ drifts = {}
  /\ files = [t \in DoneTaskIds |-> NoFiles]
  /\ done = NoDone

\* no report, test, batch or template request has been made
AppIdle ==
  /\ arg = NoArg
  /\ resp = NoResp
  /\ bg = NoBg

ScanInit ==
  /\ tpls \in [TplIds -> [status : {"enable", "disable"}, policyEnable : BOOLEAN,
                          lastScanTaskId : {NoTask}]]
  /\ envs \in [EnvIds -> [tplId : TplIds, archived : BOOLEAN, policyEnable : BOOLEAN,
                          lastScanTaskId : {NoTask}]]
  /\ scanTasks = <<>>
  /\ policyResults = {}
  /\ tasks = <<[status |-> TaskPending, runnerId |-> "runner1", containerId |-> NoContainer]>>
  /\ defaultRunner \in {NoId} \cup RunnerIds
  /\ call = NoCall
  /\ ppc = "idle"
  /\ pTaskId = NoTask
  /\ pSeen = NoId
  /\ pResult = NoId
  /\ pCalls = 0
  /\ tickerC = FALSE
  /\ timeoutC = FALSE
  /\ elapsed = 0

Init == ScanInit /\ DoneIdle /\ AppIdle

Next ==
  \/ \E formId \in TplIds, formParse \in BOOLEAN, envId \in {NoId} \cup EnvIds,
        fault \in ScanFaults :
       ScanTemplateOrEnv(formId, formParse, envId, fault)
  \/ \E formId \in EnvIds, orgEmpty \in BOOLEAN, fault \in ScanFaults :
       ScanEnvironment(formId, orgEmpty, fault)

Spec == Init /\ [][Next]_vars

\* the stop calls and the life cycle of the tasks they are about, over a
\* database whose template and environment can be scanned
InitStop ==
  /\ Init
  /\ \A t \in TplIds : tpls[t].status = "enable" /\ tpls[t].policyEnable
  /\ \A v \in EnvIds : ~envs[v].archived /\ envs[v].policyEnable
  /\ defaultRunner \in RunnerIds

NextStop ==
  \/ \E formId \in TplIds, formParse \in BOOLEAN, envId \in {NoId} \cup EnvIds :
       /\ Len(scanTasks) < MaxStopScanTasks
       /\ ScanTemplateOrEnv(formId, formParse, envId, "none")
  \/ \E id \in 1..Len(scanTasks), status \in TaskStatuses : ScanTaskStep(id, status)
  \/ \E id \in 1..Len(tasks), status \in TaskStatuses : TaskStep(id, status)
  \/ \E id \in 1..Len(tasks) + 1, found, addrOk, httpOk \in BOOLEAN :
       StopTaskContainers(id, found, addrOk, httpOk)
  \/ \E id \in 1..Len(scanTasks) + 1, found, addrOk, httpOk \in BOOLEAN :
       StopScanTaskContainers(id, found, addrOk, httpOk)

StopSpec == InitStop /\ [][NextStop]_vars

\* ParseTemplate asks for parse-only scans, which do not depend on the
\* compliance flags: the parse wait is followed with compliance scanning off
InitParse ==
  /\ Init
  /\ \A t \in TplIds : ~tpls[t].policyEnable
  /\ \A v \in EnvIds : ~envs[v].policyEnable

\* ParseTemplate and the runner's progress on the task it waits for
NextParse ==
  \/ \E templateId \in TplIds, hasEnvId \in BOOLEAN, formEnvId \in EnvIds,
        envFound \in BOOLEAN, fault \in ScanFaults :
       ParseTemplateCall(templateId, hasEnvId, formEnvId, envFound, fault)
  \/ \E found, readOk \in BOOLEAN : PollRead(found, readOk)
  \/ SelectTick
  \/ SelectTimeout
  \/ TimePasses
  \/ \E id \in 1..Len(scanTasks), status \in TaskStatuses : ScanTaskStep(id, status)

\* time passes, a database read returns, and select, which picks at random
\* among the ready cases, takes a case that is ready again and again
ParseFairness ==
  /\ WF_vars(TimePasses)
  /\ WF_vars(\E found, readOk \in BOOLEAN : PollRead(found, readOk))
  /\ SF_vars(SelectTimeout)

ParseSpec == InitParse /\ [][NextParse]_vars /\ ParseFairness

\* the database of the scan requests at rest, everything scannable
ScanAtRest ==
  /\ ScanInit
  /\ \A t \in TplIds : tpls[t].status = "enable" /\ tpls[t].policyEnable
  /\ \A v \in EnvIds : ~envs[v].archived /\ envs[v].policyEnable
  /\ defaultRunner = "runner1"

\* the sets of points that fail in one call: none, one, or two together
FaultSets(points) == {{}} \cup {{p, q} : p, q \in points}

\* the task of the last apply, whose resources the drift rows are about
LastResTaskId == 1
DriftTaskIds == DoneTaskIds \ {LastResTaskId}

\* plan logs of the detection passes
LogFiles ==
  {Absent, File("text", <<>>), File("text", <<"A", "B">>), File("text", <<"B", "C">>)}

\* drift detection: an active environment whose last apply left resources
\* (all of them, or all but C), and one plan log per detection pass
InitDrift ==
  /\ ScanAtRest
  /\ AppIdle
  /\ envAttrs = [v \in EnvIds |->
                   [NoEnvAttrs EXCEPT !.status = EnvStatusActive,
                                      !.lastResTaskId = LastResTaskId]]
  /\ now = 0
  /\ resources \in {ResourceRows(LastResTaskId, <<"A", "B", "C">>),
                     ResourceRows(LastResTaskId, <<"A", "B">>)}
  /\ outputs = <<>>
  /\ changes = <<>>
  /\ drifts = {}
  /\ files \in [DoneTaskIds -> [state : {Absent}, schema : {Absent}, plan : {Absent},
                                 log : LogFiles]]
  /\ files[LastResTaskId] = NoFiles
  /\ done = NoDone

\* the failures of one detection pass: none, one point, or two of the calls
\* whose failure the pass logs and goes on after
DriftFaults ==
  {{}} \cup {{p} : p \in DriftPoints}
       \cup FaultSets({At("DeleteEnvResourceDriftByAddressList")}
                      \cup {Point("GetResourceIdByAddressAndTaskId", a) : a \in Addresses})

NextDrift ==
  \E taskId \in DriftTaskIds, envId \in EnvIds, faults \in DriftFaults :
    taskDoneProcessDriftTask(taskId, envId, faults)

DriftSpec == InitDrift /\ [][NextDrift]_vars

\* the files of the last apply: a state with two resources and one output
ApplyFiles ==
  [NoFiles EXCEPT !.state = Json(StateBody(<<"A", "B">>, <<"out">>))]

StateFiles == {Absent, EmptyFile, Malformed, Json(StateBody(<<"A">>, <<"out">>))}
SchemaFiles == {Absent, Malformed, Json(<<>>)}
PlanFiles == {Absent, EmptyFile, Malformed, Json(<<"A">>)}
IngestLogFiles == {Absent, File("text", <<"A">>)}

\* the task after the last apply, whose files vary
IngestTaskId == LastResTaskId + 1

\* the points of the pipeline over these files
PipelinePoints == StatePoints \cup PlanPoints \cup DriftPointsOf({"A"})

\* the failures of one run of the pipeline: none, one point, or one point of
\* the state step together with one of the plan step
PipelineFaults ==
  {{}} \cup {{p} : p \in PipelinePoints}
       \cup {{p, q} : p \in StatePoints, q \in PlanPoints}

\* the tasks whose completion is processed: the last apply and the next
IngestTaskIds == {LastResTaskId, IngestTaskId}

\* ingestion: the last apply has been ingested; the next task finished with
\* any combination of files, and later tasks left none
InitIngest ==
  /\ ScanAtRest
  /\ AppIdle
  /\ envAttrs = [v \in EnvIds |->
                   [NoEnvAttrs EXCEPT !.status = EnvStatusActive,
                                      !.lastResTaskId = LastResTaskId]]
  /\ now = 0
  /\ resources = ResourceRows(LastResTaskId, <<"A", "B">>)
  /\ outputs = OutputRows(LastResTaskId, <<"out">>)
  /\ changes = <<>>
  /\ drifts = {}
  /\ \E f \in [state : StateFiles, schema : SchemaFiles, plan : PlanFiles,
                log : IngestLogFiles] :
       files = [t \in DoneTaskIds |->
                  IF t = LastResTaskId THEN ApplyFiles
                  ELSE IF t = IngestTaskId THEN f ELSE NoFiles]
  /\ done = NoDone

NextIngest ==
  \/ \E taskId \in IngestTaskIds, faults \in FaultSets(StatePoints) :
       taskDoneProcessState(taskId, faults)
  \/ \E taskId \in IngestTaskIds, faults \in FaultSets(PlanPoints) :
       taskDoneProcessPlan(taskId, faults)
  \/ \E taskId \in IngestTaskIds, envId \in EnvIds, faults \in PipelineFaults :
       processTaskDone(taskId, envId, faults)

IngestSpec == InitIngest /\ [][NextIngest]_vars

\* auto-destroy: an environment with some time-to-live, deployed or not, and
\* no destroy time yet
InitDestroy ==
  /\ ScanAtRest
  /\ AppIdle
  /\ envAttrs \in [EnvIds -> [status : {EnvStatusActive, EnvStatusInactive}, ttl : TTLs,
                               autoDestroyAt : {NilTime}, autoDestroyTaskId : {NoTask},
                               lastResTaskId : {NoTask}]]
  /\ now = 0
  /\ resources = <<>>
  /\ outputs = <<>>
  /\ changes = <<>>
  /\ drifts = {}
  /\ files = [t \in DoneTaskIds |-> NoFiles]
  /\ done = NoDone

NextDestroy ==
  \/ \E envId \in EnvIds, taskType \in TaskTypes, faults \in FaultSets(AutoDestroyPoints) :
       taskDoneProcessAutoDestroy(envId, taskType, faults)
  \/ \E envId \in EnvIds, taskType \in TaskTypes : ChangeEnvStatus(envId, taskType)
  \/ \E envId \in EnvIds, taskId \in DoneTaskIds : AutoDestroyDue(envId, taskId)
  \/ Tick

DestroySpec == InitDestroy /\ [][NextDestroy]_vars

\* a policy test: one request, any input, any answer of the evaluator
InitTest ==
  /\ ScanAtRest
  /\ DoneIdle
  /\ arg \in PolicyTestArgs(MaxViolations)
  /\ resp = NoResp
  /\ bg = NoBg

NextTest == PolicyTest

TestSpec == InitTest /\ [][NextTest]_vars

\* a compliance report: one request over any range of days, with any rows
InitReport ==
  /\ ScanAtRest
  /\ DoneIdle
  /\ arg \in ReportArgs({t \in Times : t.day <= 1})
  /\ resp = NoResp
  /\ bg = NoBg

NextReport == PolicyScanReport

ReportSpec == InitReport /\ [][NextReport]_vars

\* grouping: one page of result rows, in any order, of any groups
InitGroup ==
  /\ ScanAtRest
  /\ DoneIdle
  /\ arg \in GroupArgs(MaxResults)
  /\ resp = NoResp
  /\ bg = NoBg

NextGroup == groupByGroup

GroupSpec == InitGroup /\ [][NextGroup]_vars

\* template requests and the scans they start: one template, in any state,
\* and a default runner or none
InitTemplate ==
  /\ ScanInit
  /\ \A v \in EnvIds : ~envs[v].archived /\ envs[v].policyEnable
  /\ defaultRunner \in {NoId, "runner1"}
  /\ DoneIdle
  /\ AppIdle

\* the faults a template scan can meet
TplScanFaults ==
  {"none", "GetTemplateById", "IsTemplateEnabledScan", "CreateScanTask", "InitScanResult",
   "Save", "Commit", "panic"}

NextTemplate ==
  \/ \E form \in CreateTemplateForms, fault \in TemplateFaults : CreateTemplate(form, fault)
  \/ \E form \in UpdateTemplateForms, fault \in TemplateFaults : UpdateTemplate(form, fault)
  \/ \E fault \in WebhookFaults : SetWebhook(fault)
  \/ \E i \in 1..MaxGoroutines, fault \in TplScanFaults : BackgroundScan(i, fault)

TemplateSpec == InitTemplate /\ [][NextTemplate]_vars

\* batches over two templates, each enabled or not, compliant or not
InitBatch ==
  /\ tpls \in [BatchTplIds -> [status : {"enable", "disable"}, policyEnable : BOOLEAN,
                               lastScanTaskId : {NoTask}]]
  /\ envs = [v \in EnvIds |-> [tplId |-> "tpl1", archived |-> FALSE, policyEnable |-> TRUE,
                               lastScanTaskId |-> NoTask]]
  /\ scanTasks = <<>>
  /\ policyResults = {}
  /\ tasks = <<>>
  /\ defaultRunner \in {NoId, "runner1"}
  /\ call = NoCall
  /\ ppc = "idle"
  /\ pTaskId = NoTask
  /\ pSeen = NoId
  /\ pResult = NoId
  /\ pCalls = 0
  /\ tickerC = FALSE
  /\ timeoutC = FALSE
  /\ elapsed = 0
  /\ DoneIdle
  /\ AppIdle

NextBatch ==
  \/ \E ids \in ScanTemplateForms : ScanTemplates(ids)
  \/ \E fault \in TplScanFaults : ScanTemplatesStep(fault)

BatchSpec == InitBatch /\ [][NextBatch]_vars

(* ============================== claims =============================== *)
ScanOps == {"ScanTemplateOrEnv", "ScanEnvironment"}
StopOps == {"StopTaskContainers", "StopScanTaskContainers"}

\* this step is a scan request returning
ScanReturns == call' # call /\ call'.op \in ScanOps

\* the request wrote nothing: no task row, no result row, no pointer
WroteNothing ==
  /\ call'.taskId = NoTask
  /\ scanTasks' = scanTasks
  /\ policyResults' = policyResults
  /\ tpls' = tpls
  /\ envs' = envs

\* the scan type by the table of the four cases
TypeByTable(hasEnv, parseOnly) ==
  IF hasEnv THEN (IF parseOnly THEN TaskTypeEnvParse ELSE TaskTypeEnvScan)
  ELSE (IF parseOnly THEN TaskTypeTplParse ELSE TaskTypeTplScan)

\* C1: a scan request that meets no fault fails with PolicyScanNotEnabled
\* exactly when parseOnly is false and compliance scanning is off on its
\* target (the environment when one is given, the template otherwise), the
\* target having passed the checks before that gate; a parse-only request
\* on an eligible target with a runner succeeds and creates its task,
\* whatever the compliance flags are.
ScanNotEnabledGate ==
  [][ (ScanReturns /\ call'.fault = "none" /\ call'.err # "BadRequest") =>
      LET c == call'
          onEnv == c.envId # NoId
          enabled == IF onEnv THEN envs[c.envId].policyEnable
                     ELSE tpls[c.tplId].policyEnable
          atGate == IF onEnv THEN ~envs[c.envId].archived
                    ELSE tpls[c.tplId].status = "enable"
          eligible == /\ onEnv => ~envs[c.envId].archived
                      /\ tpls[c.tplId].status = "enable"
                      /\ defaultRunner # NoId
      IN /\ (c.err = "PolicyScanNotEnabled") <=> (atGate /\ ~c.parse /\ ~enabled)
         /\ (c.parse /\ eligible) =>
              /\ c.err = Ok
              /\ c.taskId = Len(scanTasks) + 1
              /\ Len(scanTasks') = Len(scanTasks) + 1
              /\ scanTasks'[c.taskId].type = TypeByTable(onEnv, TRUE)
    ]_vars

\* C1 witness: a parse-only request succeeded on a template whose
\* compliance scanning is off
ParseOnlyPassedDisabledGate ==
  /\ call.op = "ScanTemplateOrEnv"
  /\ call.parse
  /\ call.envId = NoId
  /\ call.err = Ok
  /\ ~tpls[call.tplId].policyEnable
  /\ scanTasks[call.taskId].type = TaskTypeTplParse

\* C2: GetScanTaskType is the table of (environment given, parseOnly), never
\* a template type when an environment is given, and every task a request
\* created has the type the table gives for the request.
ScanTypeIsTable ==
  /\ \A envId \in {NoId} \cup EnvIds, parseOnly \in BOOLEAN :
       /\ GetScanTaskType(envId, parseOnly) = TypeByTable(envId # NoId, parseOnly)
       /\ envId # NoId =>
            GetScanTaskType(envId, parseOnly) \notin {TaskTypeTplScan, TaskTypeTplParse}
  /\ (call.op \in ScanOps /\ call.err = Ok) =>
       scanTasks[call.taskId].type = TypeByTable(call.envId # NoId, call.parse)

\* C2 witness: a parse-only request on an environment created an envParse task
EnvParseTaskCreated ==
  /\ call.op \in ScanOps
  /\ call.err = Ok
  /\ call.envId # NoId
  /\ call.parse
  /\ scanTasks[call.taskId].type = TaskTypeEnvParse

\* C3: every failing exit of a scan request has rolled its transaction
\* back, none is left neither committed nor rolled back, and every scan task
\* in the database has its initial results.
ScanCreationAtomic ==
  /\ (call.op \in ScanOps /\ call.err # Ok /\ call.tx # "none") => call.tx = "rolledback"
  /\ call.tx # "open"
  /\ \A id \in 1..Len(scanTasks) : id \in policyResults

\* the status order: pending, then running, then one terminal status
Forward(from, to) ==
  \/ to = from
  \/ from = TaskPending /\ to = TaskRunning
  \/ from = TaskRunning /\ IsExitedStatus(to)

\* C4: the status of every task and scan task only moves forward through
\* pending, running, terminal, and a terminal status never changes again.
StatusMovesForward ==
  [][ /\ \A id \in 1..Len(scanTasks) :
           /\ id <= Len(scanTasks')
           /\ Forward(scanTasks[id].status, scanTasks'[id].status)
      /\ \A id \in 1..Len(tasks) :
           /\ id <= Len(tasks')
           /\ Forward(tasks[id].status, tasks'[id].status)
    ]_vars

\* C4 witness: a scan task and an execution task have both reached a
\* terminal status
TasksReachedTerminal ==
  /\ \E id \in 1..Len(scanTasks) : IsExitedStatus(scanTasks[id].status)
  /\ \E id \in 1..Len(tasks) : IsExitedStatus(tasks[id].status)

\* what a scan task holds exclusively
TargetOf(row) == IF row.envId # NoId THEN <<"env", row.envId>> ELSE <<"tpl", row.tplId>>

\* C5: at most one non-terminal scan task exists per target, a request on a
\* target that has one failing with a conflict.
OneActiveScanPerTarget ==
  \A i, j \in 1..Len(scanTasks) :
    (/\ i < j
     /\ ~IsExitedStatus(scanTasks[i].status)
     /\ ~IsExitedStatus(scanTasks[j].status))
    => TargetOf(scanTasks[i]) # TargetOf(scanTasks[j])

\* C6: a scan request whose template is disabled or whose environment is
\* archived, parse-only or not, fails with a bad-request error of the
\* eligibility checks (EnvArchived for an archived environment;
\* TemplateDisabled for a disabled template, unless the environment's own
\* check already refused the request), and writes no task and no pointer.
IneligibleTargetRejected ==
  [][ (/\ ScanReturns
       /\ call'.err # "BadRequest"
       /\ call'.fault \notin {"panic", "EnvNotExists", "GetEnvById"}
       /\ \/ call'.envId # NoId /\ envs[call'.envId].archived
          \/ /\ tpls[call'.tplId].status = "disable"
             /\ call'.fault \notin {"IsEnvEnabledScan", "TemplateNotExists",
                                    "GetTemplateById"}) =>
      LET c == call'
          archived == c.envId # NoId /\ envs[c.envId].archived
          envRefuses == c.envId # NoId /\ ~envs[c.envId].policyEnable /\ ~c.parse
      IN /\ c.err = IF archived THEN "EnvArchived"
                    ELSE IF envRefuses THEN "PolicyScanNotEnabled"
                    ELSE "TemplateDisabled"
         /\ c.http = StatusBadRequest
         /\ WroteNothing
    ]_vars

\* C6 witness: a parse-only request on a disabled template was refused
DisabledTemplateRefused ==
  /\ call.op = "ScanTemplateOrEnv"
  /\ call.parse
  /\ call.err = "TemplateDisabled"
  /\ call.http = StatusBadRequest
  /\ tpls[call.tplId].status = "disable"
  /\ Len(scanTasks) = 0

\* C7: with no default runner, a ScanTemplateOrEnv request that passed the
\* eligibility checks fails with the runner-resolution error, its
\* transaction rolled back and nothing written; every scan task carries the
\* runner the registry resolved.
RunnerResolvedOrRefused ==
  /\ [][ (/\ ScanReturns
          /\ call'.op = "ScanTemplateOrEnv"
          /\ defaultRunner = NoId) =>
         /\ call'.err # Ok
         /\ WroteNothing
         /\ call'.err = "NoRunnerAvailable" =>
              call'.tx = "rolledback" /\ call'.http = StatusInternalServerError
         /\ (/\ call'.fault = "none"
             /\ call'.envId # NoId =>
                  /\ ~envs[call'.envId].archived
                  /\ envs[call'.envId].policyEnable \/ call'.parse
             /\ tpls[call'.tplId].status = "enable"
             /\ call'.envId = NoId => tpls[call'.tplId].policyEnable \/ call'.parse)
            => call'.err = "NoRunnerAvailable"
       ]_vars
  /\ [](\A id \in 1..Len(scanTasks) :
          scanTasks[id].runnerId \in RunnerIds /\ scanTasks[id].runnerId = defaultRunner)

\* C7 witness: a request was refused for want of a runner and rolled back
NoRunnerRefused ==
  /\ call.op = "ScanTemplateOrEnv"
  /\ call.err = "NoRunnerAvailable"
  /\ call.tx = "rolledback"
  /\ defaultRunner = NoId

\* the last-scan pointer of the parent of the last request
ParentPointer ==
  IF call.envId # NoId THEN envs[call.envId].lastScanTaskId
  ELSE tpls[call.tplId].lastScanTaskId

\* C8 as claimed: after every successful scan request of any of the four
\* types the parent's last-scan pointer is the task just created.
PointerFollowsEveryRequest ==
  (call.op \in ScanOps /\ call.err = Ok) => ParentPointer = call.taskId

\* C8 amended: after a successful envScan or tplScan request the parent's
\* pointer (the environment's when one is given, the template's otherwise)
\* is the task just created, written in the step that inserts the task row;
\* a successful envParse or tplParse request, and a failed request, leave
\* both pointers as they were.
PointerFollowsScanRequest ==
  [][ ScanReturns =>
      LET c == call'
          newId == Len(scanTasks) + 1
      IN IF c.err # Ok
           THEN tpls' = tpls /\ envs' = envs
         ELSE /\ c.taskId = newId
              /\ Len(scanTasks') = newId
              /\ IF scanTasks'[newId].type = TaskTypeEnvScan
                   THEN /\ envs'[c.envId].lastScanTaskId = newId
                        /\ tpls' = tpls
                 ELSE IF scanTasks'[newId].type = TaskTypeTplScan
                   THEN /\ tpls'[c.tplId].lastScanTaskId = newId
                        /\ envs' = envs
                 ELSE tpls' = tpls /\ envs' = envs
    ]_vars

\* C8 witness: the second scan of an environment moved its pointer to the
\* new task
EnvPointerMoved ==
  /\ call.op \in ScanOps
  /\ call.err = Ok
  /\ call.taskId = 2
  /\ scanTasks[2].type = TaskTypeEnvScan
  /\ envs[call.envId].lastScanTaskId = 2

\* ParseTemplate is in its wait loop
ParseWaits == ppc \in {"read", "select"}

\* C9: the parse wait always ends; it goes on only while no terminal status
\* was read, and it returns the timeout error only once the 30-second timer
\* has fired, the last read having found the task not terminal.
ParseWaitTerminates ==
  /\ ParseWaits ~> (ppc = "done")
  /\ [](ParseWaits => ~IsExitedStatus(pSeen))
  /\ []((ppc = "done" /\ pResult = ParseTimeoutError) =>
          /\ elapsed = ParseTimeoutSeconds
          /\ pSeen \in {TaskPending, TaskRunning})

\* C9 witness: the wait returned the timeout error from a select at which
\* the poll tick was ready too
ParseTimedOutWithTickReady ==
  /\ ppc = "done"
  /\ pResult = ParseTimeoutError
  /\ tickerC
  /\ ~IsExitedStatus(scanTasks[pTaskId].status)

\* C10: a stop call leaves every task and scan task as it was, whether the
\* request was posted and answered, posted and failed, or not posted.
StopChangesNoTask ==
  [][ (call' # call /\ call'.op \in StopOps) =>
      (scanTasks' = scanTasks /\ tasks' = tasks) ]_vars

\* C10 witness: a stop request for a running scan task was posted and
\* answered, the task still running on its runner and container
RunningScanTaskStopped ==
  /\ call.op = "StopScanTaskContainers"
  /\ call.err = Ok
  /\ call.taskId \in 1..Len(scanTasks)
  /\ scanTasks[call.taskId].status = TaskRunning
  /\ call.req = TaskStopReq(scanTasks[call.taskId].runnerId, "scan", call.taskId,
                            ContainerOf("scan", call.taskId))

DriftReturns == done' # done /\ done'.op = "taskDoneProcessDriftTask"

\* C12: after a detection pass that meets no failure and whose detected
\* addresses N all resolve to a resource of the environment's last-apply
\* task, the drift rows of that task are exactly N, whatever was recorded
\* before: rows of addresses not in N are deleted, every address of N has
\* the row of this pass, and rows of other tasks are untouched.
DriftIsSetReplacement ==
  [][ LET N == ParseResourceDriftInfo(files[done'.taskId].log)
          last == envAttrs[done'.envId].lastResTaskId
      IN (/\ DriftReturns
          /\ done'.failed = {}
          /\ \A a \in N : ResourceFound(resources, a, last)) =>
         /\ DriftAddresses(drifts', last) = N
         /\ \A a \in N : DriftRow(last, a, done'.taskId) \in drifts'
         /\ Cardinality({d \in drifts' : d.taskId = last}) = Cardinality(N)
         /\ {d \in drifts' : d.taskId # last} = {d \in drifts : d.taskId # last}
    ]_vars

\* C12 witness: with drift recorded for A and B, a pass that detected B and
\* C left rows for exactly B and C, both of this pass
DriftReplacedABbyBC ==
  /\ done.op = "taskDoneProcessDriftTask"
  /\ done.err = Ok
  /\ done.before = {"A", "B"}
  /\ ParseResourceDriftInfo(files[done.taskId].log) = {"B", "C"}
  /\ drifts = {DriftRow(LastResTaskId, "B", done.taskId),
               DriftRow(LastResTaskId, "C", done.taskId)}

\* C13: a pass that detects no drifted address and whose delete does not
\* fail leaves no drift row for the environment's last-apply task and
\* inserts none.
NoDriftClearsRows ==
  [][ LET last == envAttrs[done'.envId].lastResTaskId IN
      (/\ DriftReturns
       /\ ParseResourceDriftInfo(files[done'.taskId].log) = {}
       /\ done'.failed = {}) =>
      /\ \A d \in drifts' : d.taskId # last
      /\ drifts' \subseteq drifts
      /\ done'.err = Ok
    ]_vars

\* C13 witness: a pass over a log without drift emptied a drift set that
\* held rows
DriftSetEmptied ==
  /\ done.op = "taskDoneProcessDriftTask"
  /\ done.before # {}
  /\ files[done.taskId].log = File("text", <<>>)
  /\ drifts = {}

\* C14: in a pass that got as far as the reconciliation, a detected address
\* whose resource lookup fails keeps what it had (no row is written for it),
\* every detected address whose lookup and upsert succeed has the row of this
\* pass, and the pass returns no error.
DriftIsBestEffort ==
  [][ LET N == ParseResourceDriftInfo(files[done'.taskId].log)
          last == envAttrs[done'.envId].lastResTaskId
          lookedUp(a) ==
            /\ Point("GetResourceIdByAddressAndTaskId", a) \notin done'.failed
            /\ ResourceFound(resources, a, last)
          rowsOf(rows, a) == {d \in rows : d.taskId = last /\ d.address = a}
      IN (/\ DriftReturns
          /\ done'.failed \cap {At("GetTaskPlanStep"), At("TFPlanOutputLogPath"), At("GetEnv")}
               = {}) =>
         /\ done'.err = Ok
         /\ \A a \in N :
              /\ ~lookedUp(a) => rowsOf(drifts', a) = rowsOf(drifts, a)
              /\ (lookedUp(a) /\ Point("InsertOrUpdateCronTaskInfo", a) \notin done'.failed)
                   => rowsOf(drifts', a) = {DriftRow(last, a, done'.taskId)}
    ]_vars

\* C14 witness: B and C were detected, C has no resource, and the pass
\* returned no error with the row for B written and none for C
DriftSkippedUnresolved ==
  /\ done.op = "taskDoneProcessDriftTask"
  /\ done.err = Ok
  /\ ParseResourceDriftInfo(files[done.taskId].log) = {"B", "C"}
  /\ ~ResourceFound(resources, "C", LastResTaskId)
  /\ done.failed = {}
  /\ DriftRow(LastResTaskId, "B", done.taskId) \in drifts
  /\ "C" \notin DriftAddresses(drifts, LastResTaskId)

\* this step is taskDoneProcessAutoDestroy returning
AutoDestroyReturns == done' # done /\ done'.op = "taskDoneProcessAutoDestroy"

\* the environment has a time-to-live an apply schedules from
HasTTL(env) == env.ttl # "" /\ env.ttl # "0" /\ ParseTTL(env.ttl).err = Ok

\* C15: processing an apply for an active environment with a time-to-live
\* and no destroy time sets the time to now + ttl; processing an apply while
\* a time is set leaves it as it is; nothing else of the environment changes.
ScheduledOncePerActivation ==
  [][ (/\ AutoDestroyReturns
       /\ done'.taskType = TaskTypeApply
       /\ done'.failed = {}) =>
      LET env == envAttrs[done'.envId]
          after == envAttrs'[done'.envId]
      IN /\ (env.status = EnvStatusActive /\ env.autoDestroyAt = NilTime /\ HasTTL(env))
              => (done'.err = Ok /\ after.autoDestroyAt = <<now + 1>>)
         /\ env.autoDestroyAt # NilTime => after.autoDestroyAt = env.autoDestroyAt
         /\ env.status # EnvStatusActive => after.autoDestroyAt = env.autoDestroyAt
         /\ after = [env EXCEPT !.autoDestroyAt = after.autoDestroyAt]
    ]_vars

\* C15 witness: an apply was processed an hour or more after the time was
\* set, and the time is the one set then
SecondApplyKeptTime ==
  /\ done.op = "taskDoneProcessAutoDestroy"
  /\ done.taskType = TaskTypeApply
  /\ done.err = Ok
  /\ envAttrs[done.envId].status = EnvStatusActive
  /\ envAttrs[done.envId].autoDestroyAt # NilTime
  /\ done.before = {envAttrs[done.envId]}
  /\ envAttrs[done.envId].autoDestroyAt[1] < now + 1

\* C16: processing a destroy for an inactive environment leaves the destroy
\* time nil and the scheduled destroy task empty and keeps the time-to-live
\* and everything else; an apply processed for the environment once it is
\* active again schedules from that time-to-live.
DestroyClearsSchedule ==
  [][ (AutoDestroyReturns /\ done'.failed = {}) =>
      LET env == envAttrs[done'.envId]
          after == envAttrs'[done'.envId]
      IN /\ (done'.taskType = TaskTypeDestroy /\ env.status = EnvStatusInactive) =>
              /\ done'.err = Ok
              /\ after.autoDestroyAt = NilTime
              /\ after.autoDestroyTaskId = NoTask
              /\ after.ttl = env.ttl
              /\ after = [env EXCEPT !.autoDestroyAt = NilTime,
                                     !.autoDestroyTaskId = NoTask]
         /\ (/\ done'.taskType = TaskTypeApply
             /\ done.cleared
             /\ env.status = EnvStatusActive
             /\ env.autoDestroyAt = NilTime
             /\ HasTTL(env)) =>
              after.autoDestroyAt = <<now + ParseTTL(env.ttl).hours>>
    ]_vars

\* C16 witness: after a destroy cleared a schedule whose destroy task had
\* been created, an apply into the environment, active again, set a new time
RescheduledAfterDestroy ==
  /\ done.op = "taskDoneProcessAutoDestroy"
  /\ done.taskType = TaskTypeApply
  /\ done.cleared
  /\ done.err = Ok
  /\ \E b \in done.before : b.autoDestroyAt = NilTime /\ b.autoDestroyTaskId = NoTask
  /\ envAttrs[done.envId].autoDestroyAt = <<now + 1>>
  /\ envAttrs[done.envId].ttl = "1h"
  /\ now >= 2

\* C17: an environment has a destroy time only while it is active.
TimeSetOnlyWhileActive ==
  \A v \in EnvIds :
    envAttrs[v].autoDestroyAt # NilTime => envAttrs[v].status = EnvStatusActive

\* this step is an ingestion handler, or the pipeline, returning
IngestReturns(op) == done' # done /\ done'.op = op

\* C18: ingesting a task's state or plan a second time, from the same files
\* and without failure, leaves the resource, output and change rows the
\* first ingestion left.
IngestionIsIdempotent ==
  [][ /\ (IngestReturns("taskDoneProcessState") /\ done'.err = Ok /\ done'.failed = {}) =>
           LET again == taskDoneProcessStateRun(resources', outputs', done'.taskId, {})
           IN /\ again.err = Ok
              /\ again.resources = resources'
              /\ again.outputs = outputs'
              /\ changes' = changes
      /\ (IngestReturns("taskDoneProcessPlan") /\ done'.err = Ok /\ done'.failed = {}) =>
           LET again == taskDoneProcessPlanRun(changes', done'.taskId, {})
           IN /\ again.err = Ok
              /\ again.changes = changes'
              /\ resources' = resources
              /\ outputs' = outputs
    ]_vars

\* C18 witness: the state of a task that had its resource rows was ingested
\* again, and the task has the rows of its state once
StateIngestedAgain ==
  /\ done.op = "taskDoneProcessState"
  /\ done.err = Ok
  /\ done.taskId = IngestTaskId
  /\ done.before = {"A"}
  /\ OfTask(resources, IngestTaskId) = ResourceRows(IngestTaskId, <<"A">>)
  /\ OfTask(outputs, IngestTaskId) = OutputRows(IngestTaskId, <<"out">>)
  /\ OfTask(changes, IngestTaskId) = ChangeRows(IngestTaskId, <<"A">>)

\* C19: for the state and the plan alike, a file that is absent or empty is
\* passed over (success, no row written or removed), and a file that does
\* not decode is an error with no row written or removed.
AbsentIsNoOpMalformedIsError ==
  [][ /\ (/\ IngestReturns("taskDoneProcessState")
           /\ At("StateJsonPath") \notin done'.failed) =>
           LET state == files[done'.taskId].state IN
           /\ state \in {Absent, EmptyFile} =>
                (done'.err = Ok /\ resources' = resources /\ outputs' = outputs)
           /\ state = Malformed =>
                (done'.err # Ok /\ resources' = resources /\ outputs' = outputs)
      /\ (/\ IngestReturns("taskDoneProcessPlan")
           /\ At("PlanJsonPath") \notin done'.failed) =>
           LET plan == files[done'.taskId].plan IN
           /\ plan \in {Absent, EmptyFile} => (done'.err = Ok /\ changes' = changes)
           /\ plan = Malformed => (done'.err # Ok /\ changes' = changes)
    ]_vars

\* C19 witness: a state that does not decode was refused and the task has
\* no resource and no output row
MalformedStateRefused ==
  /\ done.op = "taskDoneProcessState"
  /\ done.failed = {}
  /\ done.err = "unmarshal state json"
  /\ files[done.taskId].state = Malformed
  /\ OfTask(resources, done.taskId) = <<>>
  /\ OfTask(outputs, done.taskId) = <<>>

\* the pipeline's state step got to save the resources
StateSaved(taskId, failed) ==
  /\ files[taskId].state.kind = "json"
  /\ files[taskId].schema # Malformed
  /\ failed \cap {At("StateJsonPath"), At("ProviderSchemaJsonPath"),
                   At("SaveTaskResources")} = {}

\* C20: in the pipeline over a finished task, a failure in one of the steps
\* (state, with its provider schema; plan; drift log) neither keeps the
\* other steps' rows from being written nor takes back rows written
\* before: the changes are the plan's whenever the plan step itself met no
\* failure, the drift rows are the log's whenever the drift step met none,
\* and the resources the state step saved stay when saving the outputs, the
\* plan step or the drift step failed.
IngestionIsIsolated ==
  [][ IngestReturns("processTaskDone") =>
      LET t == done'.taskId
          failed == done'.failed
          last == envAttrs[done'.envId].lastResTaskId
          N == ParseResourceDriftInfo(files[t].log)
      IN /\ (/\ files[t].plan.kind = "json"
              /\ failed \cap {At("PlanJsonPath"), At("SaveTaskChanges")} = {}) =>
              OfTask(changes', t) = ChangeRows(t, files[t].plan.body)
         /\ (/\ failed \cap DriftPoints = {}
              /\ \A a \in N : ResourceFound(resources', a, last)) =>
              DriftAddresses(drifts', last) = N
         /\ StateSaved(t, failed) =>
              OfTask(resources', t) = ResourceRows(t, files[t].state.body.resources)
         /\ (StateSaved(t, failed) /\ At("SaveTaskOutputs") \notin failed) =>
              OfTask(outputs', t) = OutputRows(t, files[t].state.body.outputs)
         /\ \A u \in DoneTaskIds \ {t} :
              /\ OfTask(resources', u) = OfTask(resources, u)
              /\ OfTask(outputs', u) = OfTask(outputs, u)
              /\ OfTask(changes', u) = OfTask(changes, u)
    ]_vars

\* C20 witness: the pipeline met a provider schema that does not decode,
\* wrote no resource row, and wrote the plan's change row and the log's
\* drift row
PlanAndDriftSurvivedBadSchema ==
  /\ done.op = "processTaskDone"
  /\ done.taskId = IngestTaskId
  /\ done.failed = {}
  /\ files[IngestTaskId].state.kind = "json"
  /\ files[IngestTaskId].schema = Malformed
  /\ OfTask(resources, IngestTaskId) = <<>>
  /\ OfTask(changes, IngestTaskId) = ChangeRows(IngestTaskId, <<"A">>)
  /\ drifts = {DriftRow(LastResTaskId, "A", IngestTaskId)}

\* C21: a rule that PolicyTest evaluated has status failed when the
\* evaluator returned an error, passed when it found no violation and
\* violated when it found one or more; it never has another status.
OutcomeIsClassified ==
  (resp.op = "PolicyTest" /\ arg.inputValid /\ arg.fault = "none") =>
    /\ resp.hasResp /\ resp.err = Ok /\ resp.evaluated
    /\ resp.policyStatus \in {PolicyStatusFailed, PolicyStatusPassed, PolicyStatusViolated}
    /\ resp.policyStatus = PolicyStatusFailed <=> arg.regoErr
    /\ resp.policyStatus = PolicyStatusPassed <=> (~arg.regoErr /\ arg.violations = 0)
    /\ resp.policyStatus = PolicyStatusViolated <=> (~arg.regoErr /\ arg.violations >= 1)

\* C21 witness: a test whose evaluation found violations came back violated
TestFoundViolations ==
  /\ resp.op = "PolicyTest"
  /\ arg.violations = MaxViolations
  /\ resp.evaluated
  /\ resp.policyStatus = PolicyStatusViolated

\* the counts of the rows of `rows` from i on whose index is in `counted`
RECURSIVE SumCounts(_, _, _)
SumCounts(rows, i, counted) ==
  IF i > Len(rows) THEN 0
  ELSE (IF i \in counted THEN rows[i].count ELSE 0) + SumCounts(rows, i + 1, counted)

\* a report came back
Reported == resp.op = "PolicyScanReport" /\ resp.err = Ok

\* C22: the series has one bucket per day of the requested range, in date
\* order, and a bucket's scan count is the sum of the counts of the day's
\* rows that are not pending, 0 for a day without rows.
OneBucketPerDay ==
  Reported =>
    /\ Len(resp.column) = arg.to.day - arg.from.day + 1
    /\ \A i \in 1..Len(resp.column) :
         LET day == arg.from.day + i - 1
             ofDay == {k \in 1..Len(arg.rows) :
                         /\ arg.rows[k].day = day
                         /\ arg.rows[k].status # PolicyStatusPending}
         IN /\ resp.column[i] = DateLabel(day)
            /\ resp.total[i] = SumCounts(arg.rows, 1, ofDay)

\* C23: a bucket's pass rate is the count of its passed results over its
\* final total of results that are not pending, 0 when that total is 0,
\* whatever the order of the rows and whatever other buckets hold.
RateIsPassedOverTotal ==
  Reported =>
    \A i \in 1..Len(resp.column) :
      LET passedOf == {k \in 1..Len(arg.rows) :
                         /\ IndexOf(resp.column, DateLabel(arg.rows[k].day)) = i
                         /\ arg.rows[k].status = PolicyStatusPassed}
          passed == SumCounts(arg.rows, 1, passedOf)
      IN IF resp.total[i] = 0 THEN resp.rate[i][1] = 0
         ELSE resp.rate[i][1] * resp.total[i] = passed * resp.rate[i][2]

\* the place of a group name in the sort order of the query
NameRank(name) == CHOOSE i \in 1..Len(GroupNames) : GroupNames[i] = name

\* the rows are sorted by group name
SortedByGroup(results) ==
  \A i, j \in 1..Len(results) :
    i < j => NameRank(results[i].groupName) <= NameRank(results[j].groupName)

\* the group names of the rows from i on, each once, in first-seen order
RECURSIVE FirstSeen(_, _, _)
FirstSeen(results, i, seen) ==
  IF i > Len(results) THEN <<>>
  ELSE IF results[i].groupName \in seen THEN FirstSeen(results, i + 1, seen)
  ELSE <<results[i].groupName>>
         \o FirstSeen(results, i + 1, seen \cup {results[i].groupName})

\* the lists of the groups from g on, one after the other
RECURSIVE Lists(_, _)
Lists(groups, g) ==
  IF g > Len(groups) THEN <<>> ELSE groups[g].list \o Lists(groups, g + 1)

\* C24: for rows sorted by group name, groupByGroup returns one group per
\* group name in first-seen order; a group lists its rows in input order and
\* counts, per status, the rows it lists.
GroupsFollowRows ==
  (resp.op = "groupByGroup" /\ SortedByGroup(arg.results)) =>
    /\ [g \in 1..Len(resp.groups) |-> resp.groups[g].name] = FirstSeen(arg.results, 1, {})
    /\ \A g \in 1..Len(resp.groups) :
         LET group == resp.groups[g]
             InGroup(r) == r.groupName = group.name
         IN /\ group.list = SelectSeq(arg.results, InGroup)
            /\ \A s \in ResultStatuses :
                 group.summary[s] =
                   Cardinality({k \in 1..Len(group.list) : group.list[k].status = s})

\* C27: every input row is in exactly one returned group: the lists of the
\* groups, one after the other, are the input rows.
RowsConserved ==
  resp.op = "groupByGroup" =>
    /\ Len(Lists(resp.groups, 1)) = Len(arg.results)
    /\ Lists(resp.groups, 1) = arg.results

\* this step is a goroutine's scan ending
BackgroundReturns == Len(bg'.pending) < Len(bg.pending)

\* the attributes of the templates that the requests commit
Committed(rows) ==
  [t \in DOMAIN rows |-> [status |-> rows[t].status, policyEnable |-> rows[t].policyEnable]]

\* C25: the scan a template request starts runs detached: whatever its
\* outcome it changes neither the request's result nor the attributes the
\* request committed, and when it fails it is logged and nothing else
\* happens; the request goes on to return with the scan running or over.
BackgroundScanIsDetached ==
  [][ BackgroundReturns =>
        /\ resp' = resp
        /\ Committed(tpls') = Committed(tpls)
        /\ scanTasks' = scanTasks => (bg'.log.err # Ok /\ tpls' = tpls /\ ~bg'.crashed)
    ]_vars

\* the apply branch of taskDoneProcessAutoDestroy is taken
SchedulesFrom(env, taskType) ==
  /\ taskType = TaskTypeApply
  /\ env.status = EnvStatusActive
  /\ env.autoDestroyAt = NilTime
  /\ env.ttl # ""
  /\ env.ttl # "0"

\* C26: taskDoneProcessAutoDestroy changes the destroy time of a task that
\* is not a destroy only when the task is an apply, the environment is
\* active, no time is set and the time-to-live is neither "" nor "0"; in
\* every other case of a task that is not a destroy the time, the scheduled
\* destroy task and the time-to-live stay as they were; when the
\* time-to-live does not parse the error is returned and the environment
\* row is unchanged.
SchedulesOnlyFromTTL ==
  [][ (AutoDestroyReturns /\ done'.taskType # TaskTypeDestroy) =>
      LET env == envAttrs[done'.envId]
          after == envAttrs'[done'.envId]
      IN /\ after.autoDestroyAt # env.autoDestroyAt => SchedulesFrom(env, done'.taskType)
         /\ ~SchedulesFrom(env, done'.taskType) =>
              /\ after.autoDestroyAt = env.autoDestroyAt
              /\ after.autoDestroyTaskId = env.autoDestroyTaskId
              /\ after.ttl = env.ttl
         /\ (/\ SchedulesFrom(env, done'.taskType)
             /\ ParseTTL(env.ttl).err # Ok
             /\ done'.failed = {}) =>
              /\ done'.err = ParseTTL(env.ttl).err
              /\ after = env
         /\ \A e \in DOMAIN envAttrs : e # done'.envId => envAttrs'[e] = envAttrs[e]
    ]_vars

\* C26 witness: an apply into an active environment without a time whose
\* time-to-live is "0" returned and the time is still not set
ZeroTTLNotScheduled ==
  /\ done.op = "taskDoneProcessAutoDestroy"
  /\ done.taskType = TaskTypeApply
  /\ done.err = Ok
  /\ done.before = {envAttrs[done.envId]}
  /\ envAttrs[done.envId].status = EnvStatusActive
  /\ envAttrs[done.envId].ttl = "0"
  /\ envAttrs[done.envId].autoDestroyAt = NilTime

\* the template ids of the scan-task rows from..to, in row order
RowTplIds(from, to) == [k \in 1..(to - from + 1) |-> scanTasks[from + k - 1].tplId]

\* C28: ScanTemplates scans the ids in order, a transaction for each id it
\* reaches; at the first scan that returns an error it returns that error
\* and no list; the rows of the scans before it are committed, one for each
\* earlier id in order, and there is no row for the failing id or any
\* later one; when no scan fails the list holds one task for each id.
StopsAtFirstFailure ==
  resp.op = "ScanTemplates" =>
    LET reached == resp.next - 1
        made == Len(resp.scanTasks)
    IN /\ Len(resp.txs) = reached
       /\ reached <= Len(resp.ids)
       /\ Len(scanTasks) = resp.before + made
       /\ resp.scanTasks = [k \in 1..made |-> resp.before + k]
       /\ RowTplIds(resp.before + 1, Len(scanTasks)) = SubSeq(resp.ids, 1, made)
       /\ \A k \in 1..made : resp.txs[k] = "committed"
       /\ resp.phase = "loop" => (made = reached /\ reached < Len(resp.ids))
       /\ (resp.phase = "returned" /\ resp.err # Ok) =>
            /\ ~resp.list
            /\ made = reached - 1
            /\ resp.txs[reached] # "committed"
       /\ (resp.phase = "returned" /\ resp.err = Ok) =>
            /\ resp.list
            /\ made = Len(resp.ids)
       /\ resp.phase = "panicked" => (~resp.list /\ made = reached - 1)

\* C28 witness: the first id was scanned and committed, the scan of the
\* second failed, and the request returned the error and no list
SecondIdFailed ==
  /\ resp.op = "ScanTemplates"
  /\ resp.phase = "returned"
  /\ resp.err # Ok
  /\ ~resp.list
  /\ Len(resp.ids) = 2
  /\ resp.next = 3
  /\ Len(scanTasks) = resp.before + 1
  /\ scanTasks[Len(scanTasks)].tplId = resp.ids[1]
  /\ resp.ids[1] # resp.ids[2]

\* the detection pass did not get a log to parse: the plan step was not
\* found, the read failed, or the file is absent or empty
NoLogRead(failed, log) ==
  \/ At("GetTaskPlanStep") \in failed
  \/ At("TFPlanOutputLogPath") \in failed
  \/ ~HasBytes(log)

\* C29: a detection pass that finds no plan step, cannot read the plan log,
\* or finds the log absent or empty leaves the drift rows as they are and
\* sends no drift notification; a pass that removes a drift row read a log
\* with bytes.
MissingDataKeepsDrift ==
  [][ DriftReturns =>
      LET log == files[done'.taskId].log IN
      /\ NoLogRead(done'.failed, log) => (drifts' = drifts /\ ~done'.notified)
      /\ ~(drifts \subseteq drifts') => ~NoLogRead(done'.failed, log)
    ]_vars


====
